---------------------------- MODULE Spec2Model ----------------------------
(***************************************************************************)
(* A model of the trualias alias resolution engine: match expressions,     *)
(* sketches, the backtracking matcher, verification code calculation,      *)
(* configuration loading with its uniqueness rules, and lookup.find().     *)
(*                                                                         *)
(* Python strings are sequences of one-character strings.  Python's None   *)
(* and a raised exception are sequences holding one marker that is longer  *)
(* than a character, so that they are comparable with, and different from, *)
(* every string.                                                           *)
(***************************************************************************)
EXTENDS Integers, Sequences, FiniteSets, TLC

VARIABLES
    conf_text,  \* the configuration text written, then loaded
    pc,         \* where the program is: "idle", "request", "found", ...
    config,     \* the Configuration object: aliases, debug_account, error
    name,       \* the name passed to find()
    matches,    \* find()'s list of SpecMatch objects for that name
    result,     \* what the last find() returned, or the exception it raised
    expr,       \* the match expression text being written
    compiled,   \* what assigning expr to MatchExpression.expression gave
    calculating, \* the calcs, code and identifiers calculate() is called with
    calculated, \* what calculate() returned
    calc_text,  \* the alias spec with one calc being written, then loaded
    checked,    \* what CalcExpression.semantic_check did with that calc
    milter,     \* the MilterServer of a milter connection, and what it did
    tasks,      \* the handle_requests task of each connection to the milter server
    service,    \* the milter server's event loop, listener, watchdog and log
    peer,       \* the connections to the table server
    table       \* the table server's context: file, statistics, log

\* The state of the milter and of the table server.
lookupVars ==
    <<conf_text, pc, config, name, matches, result, expr, compiled, calculating, calculated>>
loopVars == <<tasks, service>>
tableVars == <<peer, table>>
serverVars == <<milter, loopVars, tableVars>>

\* The state that the lookup service and the checks of one expression, of
\* one calculation and of the uniqueness rules leave alone.
otherVars == <<calc_text, checked, serverVars>>

vars == <<conf_text, pc, config, name, matches, result, expr, compiled, calculating, calculated,
          otherVars>>

-----------------------------------------------------------------------------
(* Bounds of the model.                                                    *)

MaxLen == 5         \* longest name passed to find()
MaxPieces == 3      \* most fields and literals in a written match expression
MaxCode == 3        \* longest code passed to calculate()
MaxSpecs == 2       \* most alias specs in a written configuration
MaxRcpts == 2       \* most recipients a milter connection has recorded
MaxConns == 2       \* most connections to the milter server
MaxLines == 2       \* most lines a client sends on a connection to the table server
MaxEdits == 2       \* most times the configuration file of the table server is written anew
MaxReports == 1     \* most times the statistics reporter prints

-----------------------------------------------------------------------------
(* Python values.                                                          *)

None == <<"None">>
IndexError == <<"IndexError">>
KeyError == <<"KeyError">>
AttributeError == <<"AttributeError">>
SemanticError == <<"SemanticError">>
ParseError == <<"ParseError">>
ValueError == <<"ValueError">>
NoPos == 0 - 1000   \* an end_pos / valid_end_pos of None

Min(a, b) == IF a < b THEN a ELSE b
Max(a, b) == IF a > b THEN a ELSE b

\* s[i] with Python's negative indices; the caller guarantees it is in range.
Item(s, i) == IF i < 0 THEN s[Len(s) + i + 1] ELSE s[i + 1]

\* s[a:b]
Slice(s, a, b) ==
    LET lo == IF a < 0 THEN Max(Len(s) + a, 0) ELSE Min(a, Len(s))
        hi == IF b < 0 THEN Max(Len(s) + b, 0) ELSE Min(b, Len(s))
    IN  SubSeq(s, lo + 1, hi)

\* s[a:]
SliceFrom(s, a) == Slice(s, a, Len(s))

\* s.startswith(p)
StartsWith(s, p) == Len(p) <= Len(s) /\ SubSeq(s, 1, Len(p)) = p

\* set(s)
CharsOf(s) == {s[i] : i \in 1..Len(s)}

\* value in list
InList(value, list) == \E i \in 1..Len(list) : list[i] = value

RECURSIVE Join(_)
\* ''.join(parts)
Join(parts) == IF parts = <<>> THEN <<>> ELSE Head(parts) \o Join(Tail(parts))

RECURSIVE SplitFrom(_, _, _)
SplitFrom(s, sep, cur) ==
    IF s = <<>> THEN <<cur>>
    ELSE IF Head(s) = sep THEN <<cur>> \o SplitFrom(Tail(s), sep, <<>>)
    ELSE SplitFrom(Tail(s), sep, Append(cur, Head(s)))

\* s.split(sep) for a one-character separator
Split(s, sep) == SplitFrom(s, sep, <<>>)

Digit == <<"0", "1", "2", "3", "4", "5", "6", "7", "8", "9">>

RECURSIVE Str(_)
\* str(n) for n >= 0
Str(n) == IF n < 10 THEN <<Digit[n + 1]>> ELSE Str(n \div 10) \o <<Digit[(n % 10) + 1]>>

DigitValue(c) == CHOOSE d \in 0..9 : Digit[d + 1] = c

RECURSIVE Decimal(_, _)
Decimal(s, acc) ==
    IF s = <<>> THEN acc ELSE Decimal(Tail(s), 10 * acc + DigitValue(Head(s)))

IsDecimal(s) == s # <<>> /\ \A i \in 1..Len(s) : \E d \in 1..10 : Digit[d] = s[i]

\* Whether int(s) succeeds: an optional sign and decimal digits.
IsInt(s) ==
    \/ IsDecimal(s)
    \/ Len(s) > 1 /\ s[1] \in {"-", "+"} /\ IsDecimal(Tail(s))

\* int(s), for IsInt(s)
Int_(s) ==
    IF s[1] = "-" THEN 0 - Decimal(Tail(s), 0)
    ELSE IF s[1] = "+" THEN Decimal(Tail(s), 0)
    ELSE Decimal(s, 0)

Upper == <<"A", "B", "C", "D", "E", "F", "G", "H", "I", "J", "K", "L", "M",
           "N", "O", "P", "Q", "R", "S", "T", "U", "V", "W", "X", "Y", "Z">>
Lower == <<"a", "b", "c", "d", "e", "f", "g", "h", "i", "j", "k", "l", "m",
           "n", "o", "p", "q", "r", "s", "t", "u", "v", "w", "x", "y", "z">>

LowerChar(c) ==
    IF \E k \in 1..26 : Upper[k] = c
    THEN Lower[CHOOSE k \in 1..26 : Upper[k] = c]
    ELSE c

\* s.lower()
ToLower(s) == [i \in 1..Len(s) |-> LowerChar(s[i])]

-----------------------------------------------------------------------------
(* matching.py: character sets and matchers.                               *)

MATCH_ALPHA == {Upper[k] : k \in 1..26} \cup {Lower[k] : k \in 1..26}
MATCH_NUMBER == {Digit[d] : d \in 1..10}
MATCH_ALNUM == MATCH_ALPHA \cup MATCH_NUMBER
MATCH_FQDN == MATCH_ALNUM \cup {".", "-"}
MATCH_IDENT == MATCH_ALNUM \cup {"_"}

\* The names of the fields of a match expression.
F_alnum == <<"a", "l", "n", "u", "m">>
F_alpha == <<"a", "l", "p", "h", "a">>
F_number == <<"n", "u", "m", "b", "e", "r">>
F_ident == <<"i", "d", "e", "n", "t">>
F_fqdn == <<"f", "q", "d", "n">>
F_account == <<"a", "c", "c", "o", "u", "n", "t">>
F_alias == <<"a", "l", "i", "a", "s">>
F_code == <<"c", "o", "d", "e">>

\* Matcher.__init__: one character set stands for all three.
Matcher1(cs) == <<cs, cs, cs>>
Matcher3(start, middle, end) == <<start, middle, end>>

RECURSIVE MatcherScan(_, _, _, _, _, _)
\* The scanning loop of Matcher.__call__: the last valid end seen.
MatcherScan(char_sets, address, test_pos, valid_end_pos, end_pos, minimal) ==
    IF test_pos >= Len(address) THEN valid_end_pos
    ELSE LET test_char == address[test_pos + 1]
             is_end == test_char \in char_sets[3]
             valid == IF is_end THEN test_pos ELSE valid_end_pos
         IN  IF is_end /\ minimal /\ (end_pos = NoPos \/ test_pos >= end_pos)
             THEN valid
             ELSE IF test_char \notin char_sets[2] THEN valid
             ELSE MatcherScan(char_sets, address, test_pos + 1, valid, end_pos, minimal)

\* Matcher.__call__(address, start_pos, end_pos, minimal): <<start, end>> or None.
MatcherCall(char_sets, address, start_pos, end_pos, minimal) ==
    IF start_pos >= Len(address) THEN None
    ELSE IF ~(end_pos = NoPos \/ minimal)
    THEN LET to_match == Slice(address, start_pos, end_pos)
         IN  IF to_match # <<>>
                /\ to_match[1] \in char_sets[1]
                /\ to_match[Len(to_match)] \in char_sets[3]
             THEN IF Len(to_match) > 2
                     /\ ~(CharsOf(Slice(to_match, 1, 0 - 1)) \subseteq char_sets[2])
                  THEN None
                  ELSE <<start_pos, end_pos>>
             ELSE None
    ELSE LET valid_end_pos == MatcherScan(char_sets, address, start_pos, NoPos, end_pos, minimal)
         IN  IF valid_end_pos = NoPos THEN None ELSE <<start_pos, valid_end_pos>>


\* MatchCode.build_anchors: the count of 'any' before each 'number'.
RECURSIVE Anchors(_, _)
Anchors(char_sets, anchors) ==
    IF char_sets = <<>> THEN anchors
    ELSE IF Head(char_sets) = "any"
    THEN Anchors(Tail(char_sets),
                 [anchors EXCEPT ![Len(anchors)] = anchors[Len(anchors)] + 1])
    ELSE Anchors(Tail(char_sets), Append(anchors, 0))

BuildAnchors(char_sets) == Anchors(char_sets, <<0>>)

RECURSIVE EndGroupSize(_, _)
EndGroupSize(anchors, size) ==
    IF (size + 1) < Len(anchors) /\ anchors[Len(anchors) - size] = 0
    THEN EndGroupSize(anchors, size + 1)
    ELSE size

RECURSIVE SumSeq(_)
SumSeq(s) == IF s = <<>> THEN 0 ELSE Head(s) + SumSeq(Tail(s))

MinChars(anchors) == SumSeq(anchors) + Len(anchors) - 1

RECURSIVE SkipToNumber(_, _)
\* The inner while loop of MatchCode.__call__: the position of the next
\* numeral at or after minimal_end, or NoPos when the address runs out.
SkipToNumber(address, minimal_end) ==
    IF minimal_end >= Len(address) THEN NoPos
    ELSE IF address[minimal_end + 1] \in MATCH_NUMBER THEN minimal_end
    ELSE SkipToNumber(address, minimal_end + 1)

RECURSIVE MinimalEnd(_, _, _, _)
\* The for loop of MatchCode.__call__ from index i on; NoPos stands for
\* the return None inside it.
MinimalEnd(anchors, address, i, minimal_end) ==
    IF i > Len(anchors) - 1 THEN minimal_end
    ELSE LET at == IF i > 0 THEN SkipToNumber(address, minimal_end) ELSE minimal_end
         IN  IF at = NoPos THEN NoPos
             ELSE LET next == (IF i > 0 THEN at + 1 ELSE at) + anchors[i + 1]
                  IN  IF next >= Len(address) /\ ~((i + 1) >= Len(anchors))
                      THEN NoPos
                      ELSE MinimalEnd(anchors, address, i + 1, next)

RECURSIVE GreedyEnd(_, _, _, _)
\* The greedy loop of MatchCode.__call__ (a do-while).
GreedyEnd(address, size, curr_pos, end_pos) ==
    LET end == IF CharsOf(Slice(address, curr_pos - size + 1, curr_pos + 1)) \subseteq MATCH_NUMBER
               THEN curr_pos ELSE end_pos
    IN  IF curr_pos + 1 >= Len(address) THEN end
        ELSE GreedyEnd(address, size, curr_pos + 1, end)

\* Python's truth value of an end_pos that is None or an integer.
Given(end_pos) == end_pos # NoPos /\ end_pos # 0

\* MatchCode.__call__(address, start_pos, end_pos, minimal)
MatchCodeCall(char_sets, address, start_pos, end_pos, minimal) ==
    LET anchors == BuildAnchors(char_sets)
        size == EndGroupSize(anchors, 0)
        n_at_start == anchors[1] = 0
        n_at_end == anchors[Len(anchors)] = 0
    IN  IF start_pos >= Len(address) \/ (Given(end_pos) /\ end_pos >= Len(address))
        THEN None
        ELSE IF n_at_start /\ address[start_pos + 1] \notin MATCH_NUMBER THEN None
        ELSE IF n_at_end /\ Given(end_pos) /\ Item(address, end_pos) \notin MATCH_NUMBER
        THEN None
        ELSE LET found == MinimalEnd(anchors, address, 0, start_pos)
                 minimal_end == found - 1
             IN  IF found = NoPos THEN None
                 ELSE IF minimal THEN <<start_pos, minimal_end>>
                 ELSE IF end_pos # NoPos /\ end_pos = minimal_end
                 THEN <<start_pos, minimal_end>>
                 ELSE IF end_pos # NoPos /\ end_pos < minimal_end THEN None
                 ELSE LET last ==
                              IF n_at_end
                              THEN IF Given(end_pos)
                                   THEN IF CharsOf(Slice(address, end_pos - size + 1, end_pos + 1))
                                               \subseteq MATCH_NUMBER
                                        THEN end_pos ELSE NoPos - 1
                                   ELSE GreedyEnd(address, size, minimal_end + 1, minimal_end)
                              ELSE end_pos
                      IN  IF last = NoPos - 1 THEN None
                          ELSE <<start_pos,
                                 IF Given(last) THEN last ELSE Len(address) - 1>>

-----------------------------------------------------------------------------
(* alias.py: match expressions.                                            *)

IDENT_MATCHER_NAMES == {F_alnum, F_alpha, F_number, F_ident, F_fqdn}
ALL_MATCHER_NAMES == IDENT_MATCHER_NAMES \cup {F_account, F_alias, F_code}
FRIENDLIES == {F_alpha, F_number}
MATCH_ANY_CHAR == {"ANY", "NONE", "CHAR"}
DEFAULT_ACCOUNT_MATCH == F_ident
Poison == <<"p", "o", "i", "s", "o", "n">>

\* MatchExpression.IDENT_MATCHERS and ALL_MATCHERS: the character sets of
\* the matcher of each name (code is built by build_sketch).
IDENT_MATCHERS(tok) ==
    CASE tok = F_alnum -> Matcher1(MATCH_ALNUM)
      [] tok = F_alpha -> Matcher1(MATCH_ALPHA)
      [] tok = F_number -> Matcher1(MATCH_NUMBER)
      [] tok = F_ident -> Matcher3(MATCH_IDENT, MATCH_IDENT \cup {"-"}, MATCH_IDENT)
      [] tok = F_fqdn -> Matcher3(MATCH_IDENT, MATCH_FQDN, MATCH_IDENT)

ALL_MATCHERS(tok) ==
    IF tok \in {F_account, F_alias} THEN IDENT_MATCHERS(DEFAULT_ACCOUNT_MATCH)
    ELSE IDENT_MATCHERS(tok)

\* A setter step that accepts any known matcher next to any other: the
\* step without its three adjacency tests.
ExpressionStepAnyNeighbour(input_tokens, k, st) ==
    LET tok == input_tokens[k]
        outside == (k % 2) = 1
    IN  IF outside
        THEN [st EXCEPT
                !.tokens = Append(@, IF tok = <<>> /\ k + 1 < Len(input_tokens)
                                        /\ input_tokens[k + 2] = <<>>
                                     THEN <<"%">> ELSE tok),
                !.state = IF tok # <<>> THEN <<>> ELSE @]
        ELSE IF tok = <<>>
        THEN IF k > 0 /\ input_tokens[k] = <<>>
             THEN st
             ELSE [st EXCEPT !.error = SemanticError]
        ELSE IF tok \notin ALL_MATCHER_NAMES THEN [st EXCEPT !.error = SemanticError]
        ELSE LET n == IF tok \in IDENT_MATCHER_NAMES
                      THEN st.identifiers + 1 ELSE st.identifiers
             IN  [st EXCEPT
                     !.state = IF tok \in FRIENDLIES THEN tok ELSE Poison,
                     !.identifiers = n,
                     !.fqdns = IF tok = F_fqdn THEN @ \cup {n} ELSE @,
                     !.tokens = Append(@, tok)]

\* One step of the loop of the MatchExpression.expression setter, on the
\* k-th (from 1) element of input_tokens; st is the loop's state.
ExpressionStep(input_tokens, k, st) ==
    LET tok == input_tokens[k]
        outside == (k % 2) = 1
    IN  IF outside
        THEN [st EXCEPT
                !.tokens = Append(@, IF tok = <<>> /\ k + 1 < Len(input_tokens)
                                        /\ input_tokens[k + 2] = <<>>
                                     THEN <<"%">> ELSE tok),
                !.state = IF tok # <<>> THEN <<>> ELSE @]
        ELSE IF tok = <<>>
        THEN IF k > 0 /\ input_tokens[k] = <<>>
             THEN st
             ELSE [st EXCEPT !.error = SemanticError]
        ELSE IF tok \notin ALL_MATCHER_NAMES THEN [st EXCEPT !.error = SemanticError]
        ELSE IF st.state = Poison THEN [st EXCEPT !.error = SemanticError]
        ELSE IF tok \in FRIENDLIES /\ tok = st.state
        THEN [st EXCEPT !.error = SemanticError]
        ELSE IF tok \notin FRIENDLIES /\ st.state \in FRIENDLIES
        THEN [st EXCEPT !.error = SemanticError]
        ELSE LET n == IF tok \in IDENT_MATCHER_NAMES
                      THEN st.identifiers + 1 ELSE st.identifiers
             IN  [st EXCEPT
                     !.state = IF tok \in FRIENDLIES THEN tok ELSE Poison,
                     !.identifiers = n,
                     !.fqdns = IF tok = F_fqdn THEN @ \cup {n} ELSE @,
                     !.tokens = Append(@, tok)]

RECURSIVE ExpressionLoop(_, _, _)
ExpressionLoop(input_tokens, k, st) ==
    IF k > Len(input_tokens) \/ st.error # None THEN st
    ELSE ExpressionLoop(input_tokens, k + 1, ExpressionStep(input_tokens, k, st))

\* The MatchExpression.expression setter: the compiled expression, whose
\* error is SemanticError when the setter raises.
Expression(value) ==
    LET st == ExpressionLoop(Split(value, "%"), 1,
                             [error |-> None, tokens |-> <<>>, state |-> <<>>,
                              identifiers |-> 0, fqdns |-> {}])
    IN  [error |-> st.error, tokens |-> st.tokens, identifiers |-> st.identifiers,
         fqdns |-> st.fqdns, expression_ |-> value]

\* 'any' or 'number' for each calc, as build_sketch gives them to MatchCode.
CodeShapes(calcs) ==
    [c \in 1..Len(calcs) |->
        IF calcs[c].func \in MATCH_ANY_CHAR THEN "any" ELSE "number"]

\* MatchExpression.build_sketch: literals at odd places, matchers at even
\* ones.  A matcher is the name of its entry in ALL_MATCHERS, and for the
\* code the MatchCode built from the calcs.
BuildSketch(tokens, calcs) ==
    [k \in 1..Len(tokens) |->
        IF (k % 2) = 1 THEN tokens[k]
        ELSE IF tokens[k] # F_code THEN [name |-> tokens[k], char_sets |-> <<>>]
        ELSE [name |-> F_code, char_sets |-> CodeShapes(calcs)]]

\* Whether build_sketch finds every matcher it looks up.
SketchBuildable(tokens) ==
    \A k \in 1..Len(tokens) : (k % 2) = 0 => tokens[k] \in ALL_MATCHER_NAMES

Param(account, alias, sub) == IF sub = F_account THEN account ELSE alias

RECURSIVE UsingFrom(_, _, _, _, _)
\* Sketch.__init__ and Sketch.using with Literal.__str__: the sketch from
\* place k on, where literal is the text gathered so far for the literal
\* in progress; account and alias matchers are replaced by their strings.
UsingFrom(sketch, k, literal, account, alias) ==
    IF k > Len(sketch) THEN <<literal>>
    ELSE IF sketch[k].name \in {F_account, F_alias}
    THEN UsingFrom(sketch, k + 2,
                   literal \o Param(account, alias, sketch[k].name)
                           \o (IF k + 1 <= Len(sketch) THEN sketch[k + 1] ELSE <<>>),
                   account, alias)
    ELSE <<literal, sketch[k]>>
         \o (IF k + 1 <= Len(sketch)
             THEN UsingFrom(sketch, k + 2, sketch[k + 1], account, alias)
             ELSE <<>>)

Using(sketch, account, alias) ==
    IF sketch = <<>> THEN <<>> ELSE UsingFrom(sketch, 2, sketch[1], account, alias)

\* Calling the matcher at a place of a sketch: its truth value.
CallMatcher(matcher, address, start_pos, end_pos) ==
    IF matcher.name = F_code
    THEN MatchCodeCall(matcher.char_sets, address, start_pos, end_pos, FALSE) # None
    ELSE MatcherCall(ALL_MATCHERS(matcher.name), address, start_pos, end_pos, FALSE) # None

\* IdentifierList.append: the identifier put before each sublist.
Prepend(type, value, sublists) ==
    [m \in 1..Len(sublists) |-> <<[type |-> type, value |-> value]>> \o sublists[m]]

RECURSIVE MatchSketch(_, _, _, _)
RECURSIVE MatchSketchLoop(_, _, _, _, _, _, _)

\* The while loop of match_sketch, from end_offset on.
MatchSketchLoop(sketch, address, i, start_pos, end_lit, end_offset, found) ==
    IF ~(end_offset < Len(address)) THEN found
    ELSE IF end_lit # None /\ end_lit # <<>>
    THEN IF ~(StartsWith(SliceFrom(address, end_offset), end_lit)
              /\ CallMatcher(sketch[i + 2], address, start_pos, end_offset - 1))
         THEN MatchSketchLoop(sketch, address, i, start_pos, end_lit, end_offset + 1, found)
         ELSE LET ident_value == Slice(address, start_pos, end_offset)
                  next == end_offset + Len(end_lit)
                  sub == MatchSketch(sketch, address, i + 2, next)
              IN  MatchSketchLoop(sketch, address, i, start_pos, end_lit, next,
                                  found \o Prepend(sketch[i + 2].name, ident_value, sub))
    ELSE LET next == end_offset + 1
         IN  IF ~CallMatcher(sketch[i + 2], address, start_pos, next - 1)
             THEN MatchSketchLoop(sketch, address, i, start_pos, end_lit, next, found)
             ELSE LET ident_value == Slice(address, start_pos, next)
                      sub == MatchSketch(sketch, address, i + 2, next)
                  IN  MatchSketchLoop(sketch, address, i, start_pos, end_lit, next,
                                      found \o Prepend(sketch[i + 2].name, ident_value, sub))

\* MatchExpression.match_sketch(sketch, address, i, start_pos): the
\* IdentifierList, a list of lists of identifiers; <<<<>>>> is the empty
\* success and <<>> the failure.
MatchSketch(sketch, address, i, start_pos) ==
    LET at_the_end == (IF (i + 1) >= Len(sketch) THEN 1 ELSE 0)
                      + (IF start_pos >= Len(address) THEN 1 ELSE 0)
    IN  IF at_the_end # 0 THEN (IF at_the_end = 2 THEN <<<<>>>> ELSE <<>>)
        ELSE IF start_pos = 0 /\ ~StartsWith(address, sketch[i + 1]) THEN <<>>
        ELSE LET start == IF start_pos = 0 THEN Len(sketch[i + 1]) ELSE start_pos
                 end_lit == IF Len(sketch) > (i + 2) /\ sketch[i + 3] # <<>>
                            THEN sketch[i + 3] ELSE None
             IN  MatchSketchLoop(sketch, address, i, start, end_lit, start, <<>>)

\* IdentifierList.unpack for one match: the code identifier (None when
\* there is none) and the identifiers to calculate from.
UnpackIdents(match) ==
    SelectSeq(match, LAMBDA ident : ident.type \in IDENT_MATCHER_NAMES)

UnpackCode(match) ==
    LET codes == SelectSeq(match, LAMBDA ident : ident.type = F_code)
    IN  IF codes = <<>> THEN None ELSE codes[Len(codes)].value

-----------------------------------------------------------------------------
(* alias.py: calc functions and calc expressions.                          *)

False == <<"False">>
NONINTEGER_PARAM_VALUES == {F_account, F_alias}
DIGITS == {"1", "2", "3", "4", "5", "6", "7", "8", "9", "0"}
ALPHAS == {Lower[k] : k \in 1..26}
VOWELS == {"a", "e", "i", "o", "u"}

\* Whether a value is an exception being raised.
Raised(v) == v \in {IndexError}

\* Python's truth value of a string or None or False.
Truthy(v) == v # None /\ v # False /\ v # <<>>

\* sum(( c in chars for c in value ))
CountIn(value, chars) == Cardinality({k \in 1..Len(value) : value[k] \in chars})

\* Subscriptable.get(subscript): the identifier, or IndexError.
Get(ids, subscript) ==
    LET sub == ToLower(subscript)
    IN  IF sub = F_account THEN [type |-> F_account, value |-> ids.account]
        ELSE IF sub = F_alias THEN [type |-> F_alias, value |-> ids.alias]
        ELSE LET k == Int_(sub) - 1
                 n == Len(ids.identifiers)
             IN  IF k >= n \/ k < 0 - n THEN IndexError
                 ELSE Item(ids.identifiers, k)

\* args and args[0] or '1'
FirstArg(args) == IF args # <<>> /\ args[1] # <<>> THEN args[1] ELSE <<"1">>

func_digits(code, args, ids) ==
    LET id == Get(ids, FirstArg(args))
    IN  IF Raised(id) THEN id ELSE Str(CountIn(id.value, DIGITS))

func_alphas(code, args, ids) ==
    LET id == Get(ids, FirstArg(args))
    IN  IF Raised(id) THEN id ELSE Str(CountIn(id.value, ALPHAS))

func_labels(code, args, ids) ==
    LET id == Get(ids, FirstArg(args))
    IN  IF Raised(id) THEN id
        ELSE IF id.type # F_fqdn THEN None
        ELSE Str(Len(Split(id.value, ".")))

func_chars(code, args, ids) ==
    LET id == Get(ids, FirstArg(args))
    IN  IF Raised(id) THEN id ELSE Str(Len(id.value))

func_vowels(code, args, ids) ==
    LET id == Get(ids, FirstArg(args))
    IN  IF Raised(id) THEN id ELSE Str(CountIn(id.value, VOWELS))

func_any(code, args, ids) ==
    LET id == Get(ids, FirstArg(args))
    IN  IF Raised(id) THEN id
        ELSE IF code[1] \in CharsOf(id.value) THEN <<code[1]>> ELSE None

func_none(code, args, ids) ==
    LET id == Get(ids, FirstArg(args))
    IN  IF Raised(id) THEN id
        ELSE IF code[1] \notin CharsOf(id.value) THEN <<code[1]>> ELSE None

Abs(n) == IF n < 0 THEN 0 - n ELSE n

\* identifier[char] after the bounds test of func_char
CharAt(identifier, offset, default) ==
    IF Abs(offset) > Len(identifier) THEN default
    ELSE LET char == IF offset > 0 THEN offset - 1 ELSE offset
         IN  IF identifier = <<>> THEN IndexError ELSE <<Item(identifier, char)>>

\* func_char: args are taken in turn as identifier index, label index,
\* character offset and default; the label index and the offset are the
\* integers semantic_check converted them to.
func_char(code, args, ids) ==
    LET n == Len(args)
        takes_i == n = 4 \/ (n = 3 /\ (Len(ids.identifiers) # 1
                                      \/ Get(ids, <<"1">>).type # F_fqdn))
        i == IF takes_i THEN args[1] ELSE <<"1">>
        at == IF takes_i THEN 2 ELSE 1
        id == Get(ids, i)
    IN  IF Raised(id) THEN id
        ELSE IF id.type = F_fqdn
        THEN LET given == Int_(args[at])
                 offset == Int_(args[at + 1])
                 default == args[at + 2]
                 labels == Split(id.value, ".")
             IN  IF Abs(given) > Len(labels) THEN default
                 ELSE CharAt(Item(labels, IF given > 0 THEN given - 1 ELSE given),
                             offset, default)
        ELSE CharAt(id.value, Int_(args[at]), args[at + 1])

\* CalcExpression.FUNCS
Func(func, code, args, ids) ==
    CASE func = "DIGITS" -> func_digits(code, args, ids)
      [] func = "ALPHAS" -> func_alphas(code, args, ids)
      [] func = "LABELS" -> func_labels(code, args, ids)
      [] func = "CHARS" -> func_chars(code, args, ids)
      [] func = "VOWELS" -> func_vowels(code, args, ids)
      [] func = "ANY" -> func_any(code, args, ids)
      [] func = "NONE" -> func_none(code, args, ids)
      [] func = "CHAR" -> func_char(code, args, ids)

RECURSIVE CalculateFromAnyRest(_, _, _, _, _)
\* A calculate loop that returns the results whatever is left of the code
\* after the last calc.
CalculateFromAnyRest(calcs, k, code, ids, results) ==
    IF k > Len(calcs) THEN results
    ELSE IF code = <<>> THEN False
    ELSE LET fv == Func(calcs[k].func, code, calcs[k].args, ids)
         IN  IF Raised(fv) THEN fv
             ELSE IF ~Truthy(fv) THEN False
             ELSE IF StartsWith(code, fv)
             THEN CalculateFromAnyRest(calcs, k + 1, SliceFrom(code, Len(fv)), ids,
                                       results \o fv)
             ELSE False

RECURSIVE CalculateFrom(_, _, _, _, _)
\* The loop of CalcExpression.calculate from calc k on, with what is left
\* of the code and the results joined so far.
CalculateFrom(calcs, k, code, ids, results) ==
    IF k > Len(calcs) THEN (IF code # <<>> THEN False ELSE results)
    ELSE IF code = <<>> THEN False
    ELSE LET fv == Func(calcs[k].func, code, calcs[k].args, ids)
         IN  IF Raised(fv) THEN fv
             ELSE IF ~Truthy(fv) THEN False
             ELSE IF StartsWith(code, fv)
             THEN CalculateFrom(calcs, k + 1, SliceFrom(code, Len(fv)), ids, results \o fv)
             ELSE False

\* CalcExpression.calculate(code, identifiers, account, alias): False, the
\* built code string, or the exception a calc function raises.
Calculate(calcs, code, identifiers, account, alias) ==
    CalculateFrom(calcs, 1, code,
                  [identifiers |-> identifiers, account |-> account, alias |-> alias],
                  <<>>)

-----------------------------------------------------------------------------
(* alias.py: MatchExpression.match, Alias.match, SpecMatch; lookup.find.   *)

\* accounts or ['']
OrEmpty(list) == IF list = <<>> THEN << <<>> >> ELSE list

\* What a step that may raise gives: the exception, or the value.
Raise(exception) == [error |-> exception, value |-> <<>>]
Return(value) == [error |-> None, value |-> value]

RECURSIVE VerifiedFrom(_, _, _, _, _, _)
\* The loop over matched.unpack() in MatchExpression.match from candidate m
\* on: the idents of the candidates whose code verifies, or the exception
\* calculate raises.
VerifiedFrom(matched, m, calcs, account, alias, verified) ==
    IF m > Len(matched) THEN Return(verified)
    ELSE LET code == UnpackCode(matched[m])
             idents == UnpackIdents(matched[m])
         IN  IF code = None
             THEN VerifiedFrom(matched, m + 1, calcs, account, alias, verified)
             ELSE LET v == Calculate(calcs, code, idents, account, alias)
                  IN  IF Raised(v) THEN Raise(v)
                      ELSE VerifiedFrom(matched, m + 1, calcs, account, alias,
                                        IF Truthy(v) THEN Append(verified, idents)
                                        ELSE verified)

\* The candidates of one account and alias that verify.
Verified(sketch, calcs, account, alias, address) ==
    VerifiedFrom(MatchSketch(Using(sketch, account, alias), address, 0, 0), 1,
                 calcs, account, alias, <<>>)

RECURSIVE MatchFrom(_, _, _, _, _)
\* The loops over accounts and aliases of MatchExpression.match, from the
\* k-th (from 0) pair on, given the verified candidates of every pair.
MatchFrom(verified, accounts, aliases, k, found) ==
    IF k >= Len(accounts) * Len(aliases) THEN Return(found)
    ELSE IF verified[k + 1].error # None THEN verified[k + 1]
    ELSE MatchFrom(verified, accounts, aliases, k + 1,
                   IF verified[k + 1].value # <<>>
                   THEN Append(found,
                               [delivery_account |-> accounts[(k \div Len(aliases)) + 1],
                                built_match |-> verified[k + 1].value[1],
                                ambiguous |-> Len(verified[k + 1].value) > 1])
                   ELSE found)

\* The verified candidates of every pair of an account and an alias, in the
\* order of the loops.
VerifiedPairs(sketch, calcs, accounts, aliases, address) ==
    [n \in 1..(Len(accounts) * Len(aliases)) |->
        Verified(sketch, calcs, accounts[((n - 1) \div Len(aliases)) + 1],
                 aliases[((n - 1) % Len(aliases)) + 1], address)]

\* MatchExpression.match(calc, accounts, aliases, address): the list of
\* MatchInfo, or the exception that escapes.
Match(sketch, calcs, accounts, aliases, address) ==
    IF MatchSketch(sketch, address, 0, 0) = <<>> THEN Return(<<>>)
    ELSE MatchFrom(VerifiedPairs(sketch, calcs, OrEmpty(accounts), OrEmpty(aliases), address),
                   OrEmpty(accounts), OrEmpty(aliases), 0, <<>>)

\* What Alias.match returns for what matchex.match gave: no SpecMatch or
\* one, or the exception.
SpecMatched(spec, found) ==
    IF found.error # None THEN found
    ELSE IF found.value = <<>> THEN Return(<<>>)
    ELSE Return(<<[spec |-> spec, matches |-> found.value]>>)

\* Alias.match(name)
AliasMatch(spec, address) ==
    IF ~spec.matchex.built THEN Raise(AttributeError)
    ELSE SpecMatched(spec, Match(spec.matchex.sketch, spec.calc, spec.accounts,
                                 spec.aliases, address))

\* SpecMatch.ambiguous()
SpecMatchAmbiguous(match) ==
    \/ Len(match.matches) > 1
    \/ \E m \in 1..Len(match.matches) : match.matches[m].ambiguous

\* A delivery_account() that gives the name's first identifier instead of
\* the account.
SpecMatchFirstIdentifier(match) ==
    LET built_match == match.matches[1].built_match
    IN  IF built_match = <<>> THEN match.matches[1].delivery_account
        ELSE built_match[1].value

\* SpecMatch.delivery_account(): the account when there is only one.
SpecMatchDeliveryAccount(match) ==
    LET accounts == {match.matches[m].delivery_account : m \in 1..Len(match.matches)}
    IN  IF Cardinality(accounts) > 1 THEN None ELSE CHOOSE a \in accounts : TRUE

RECURSIVE Joined(_, _, _)
\* The first loop of find from the k-th spec on, given what spec.match(name)
\* gives for each spec: the matches joined, or the first exception.
Joined(matched, k, found) ==
    IF k > Len(matched) THEN Return(found)
    ELSE IF matched[k].error # None THEN matched[k]
    ELSE Joined(matched, k + 1, found \o matched[k].value)

\* The first loop of find: spec.match(name) of every spec, joined.
SpecMatches(aliases, k, address, found) ==
    Joined([j \in 1..Len(aliases) |-> AliasMatch(aliases[j], address)], k, found)

RECURSIVE LastDeliveryAccount(_, _, _)
\* A second loop of find that keeps the account of the last match, whatever
\* the matches before it gave.
LastDeliveryAccount(found, k, delivery_account) ==
    IF k > Len(found) THEN delivery_account
    ELSE LastDeliveryAccount(found, k + 1, SpecMatchDeliveryAccount(found[k]))

\* A second loop of find that keeps the account of the first match,
\* whatever the matches after it give.
FirstDeliveryAccount(found, k, delivery_account) ==
    IF found = <<>> THEN delivery_account ELSE SpecMatchDeliveryAccount(found[1])

RECURSIVE DeliveryAccount(_, _, _)
\* The second loop of find over the matches from the k-th on.
DeliveryAccount(found, k, delivery_account) ==
    IF k > Len(found) THEN delivery_account
    ELSE LET account == SpecMatchDeliveryAccount(found[k])
             d1 == IF account = None
                      \/ (Truthy(delivery_account) /\ delivery_account # account)
                   THEN None ELSE delivery_account
             d2 == IF ~Truthy(d1) /\ d1 # None THEN account ELSE d1
         IN  DeliveryAccount(found, k + 1, d2)

\* find(name, config) given what its first loop gives.
FindResult(found, debug_account) ==
    IF found.error # None THEN found.error
    ELSE IF found.value = <<>> THEN <<>>
    ELSE LET delivery_account == DeliveryAccount(found.value, 1, <<>>)
         IN  IF Truthy(delivery_account) THEN delivery_account ELSE debug_account

\* find(name, config)
Find(address, cfg) ==
    FindResult(SpecMatches(cfg.aliases, 1, address, <<>>), cfg.debug_account)

-----------------------------------------------------------------------------
(* alias.py: CalcExpression.semantic_check and Alias.semantic_check.       *)

\* try: i_ident = int(s) / except ValueError: i_ident = -1
IntOr(s) == IF IsInt(s) THEN Int_(s) ELSE 0 - 1

\* The test of an identifier subscript that is not account or alias, and
\* of alias when there are no aliases.
SubscriptError(arg, n_identifiers, aliases) ==
    IF ToLower(arg) \notin NONINTEGER_PARAM_VALUES
    THEN IntOr(arg) < 1 \/ IntOr(arg) > n_identifiers
    ELSE ToLower(arg) = F_alias /\ aliases = <<>>

\* A check that takes any integer for an identifier index.
CalcErrorAnyIndex(args, matchex, aliases) ==
    \/ Len(args) > 1
    \/ matchex.identifiers > 1 /\ Len(args) < 1
    \/ Len(args) > 0 /\ ToLower(args[1]) = F_alias /\ aliases = <<>>

\* Whether semantic_check raises for a calc that is not CHAR.
CalcError(args, matchex, aliases) ==
    \/ Len(args) > 1
    \/ matchex.identifiers > 1 /\ Len(args) < 1
    \/ Len(args) > 0 /\ SubscriptError(args[1], matchex.identifiers, aliases)

\* Whether semantic_check raises for a CHAR calc, the conversion of the
\* label index and the character offset to int included.
CharError(args, matchex, aliases) ==
    LET n == Len(args)
        needs_ident_subscript == matchex.identifiers > 1
        first_arg_is_label == ~needs_ident_subscript /\ 1 \in matchex.fqdns /\ n # 4
        calc == <<<<"C", "H", "A", "R">>>> \o args
    IN  \/ n > 4
        \/ /\ needs_ident_subscript
           /\ \/ n < 3
              \/ n = 4 /\ IntOr(args[1]) \notin matchex.fqdns
              \/ /\ n # 4
                 /\ \/ SubscriptError(args[1], matchex.identifiers, aliases)
                    \/ /\ ToLower(args[1]) \notin NONINTEGER_PARAM_VALUES
                       /\ IntOr(args[1]) \in matchex.fqdns
        \/ /\ ~needs_ident_subscript
           /\ \/ n < 2
              \/ /\ 1 \in matchex.fqdns
                 /\ \/ ~IsInt(Item(args, n - 3))
                    \/ n = 4 /\ IntOr(args[1]) # 1
              \/ /\ 1 \notin matchex.fqdns
                 /\ \/ n = 4
                    \/ n = 3 /\ SubscriptError(args[1], matchex.identifiers, aliases)
        \/ ~IsInt(Item(calc, 0 - 2))
        \/ (n = 4 \/ first_arg_is_label) /\ ~IsInt(Item(calc, 0 - 3))

\* CalcExpression.semantic_check(matchex, aliases): None, or SemanticError.
SemanticCheck(calcs, matchex, aliases) ==
    IF \E c \in 1..Len(calcs) :
          IF calcs[c].func = "CHAR" THEN CharError(calcs[c].args, matchex, aliases)
          ELSE CalcError(calcs[c].args, matchex, aliases)
    THEN SemanticError ELSE None

-----------------------------------------------------------------------------
(* parser.py and config.py: loading a configuration.                       *)

DEBUG_ACCOUNT == None
NotConfigured == <<"Not configured.">>

\* set(list)
SetOf(list) == {list[i] : i \in 1..Len(list)}

\* A configuration text is its alias statements, one to a line, each
\* ACCOUNT accounts [ALIASED aliases] MATCHES expression WITH calcs; and
\* its DEBUG ACCOUNT setting (None when the text has none).

\* parser.alias_spec: the Alias of the statement at a line.
AliasSpec(stmt, line_number) ==
    LET m == Expression(stmt.expression)
    IN  [accounts |-> stmt.accounts, aliases |-> stmt.aliases, calc |-> stmt.calcs,
         error |-> m.error,
         matchex |-> [expression_ |-> m.expression_, tokens |-> m.tokens,
                      identifiers |-> m.identifiers, fqdns |-> m.fqdns,
                      line_number |-> line_number, unique |-> FALSE,
                      built |-> FALSE, sketch |-> <<>>]]

\* What StreamParsingLoader.load gives when alias_spec gave specs for the
\* statements of the text.
LoaderConfig(text, specs) ==
    LET bad == {k \in 1..Len(specs) : specs[k].error # None}
    IN  IF bad # {}
        THEN [error |-> specs[CHOOSE k \in bad : \A j \in bad : k <= j].error,
              aliases |-> <<>>, debug_account |-> None,
              line_number |-> CHOOSE k \in bad : \A j \in bad : k <= j]
        ELSE [error |-> None, aliases |-> specs, debug_account |-> text.debug_account,
              line_number |-> 0]

\* StreamParsingLoader.load: the new configuration, or the error of the
\* first statement whose match expression does not compile.
LoaderLoad(text) ==
    LoaderConfig(text, [k \in 1..Len(text.statements) |-> AliasSpec(text.statements[k], k)])

\* The first loop of build_maps: which match expressions are unique.
Unique(aliases, k) ==
    Cardinality({j \in 1..Len(aliases) :
                    aliases[j].matchex.expression_ = aliases[k].matchex.expression_}) = 1

RECURSIVE Distinct(_, _)
\* The keys of a dict in the order they were inserted.
Distinct(idents, seen) ==
    IF idents = <<>> THEN <<>>
    ELSE IF Head(idents) \in seen THEN Distinct(Tail(idents), seen)
    ELSE <<Head(idents)>> \o Distinct(Tail(idents), seen \cup {Head(idents)})

RECURSIVE Flatten(_)
Flatten(lists) == IF lists = <<>> THEN <<>> ELSE Head(lists) \o Flatten(Tail(lists))

\* build_maps: the keys of self.accounts and self.aliases, and the specs
\* (their places in config['aliases']) each one is declared by.
AccountKeys(aliases) == Distinct(Flatten([k \in 1..Len(aliases) |-> aliases[k].accounts]), {})
AliasKeys(aliases) == Distinct(Flatten([k \in 1..Len(aliases) |-> aliases[k].aliases]), {})
AccountSpecs(aliases, account) ==
    SelectSeq([k \in 1..Len(aliases) |-> k], LAMBDA k : InList(account, aliases[k].accounts))
AliasSpecs(aliases, alias) ==
    SelectSeq([k \in 1..Len(aliases) |-> k], LAMBDA k : InList(alias, aliases[k].aliases))

\* Configuration.associated_aliases(account)
AssociatedAliases(aliases, account) ==
    UNION {SetOf(aliases[k].aliases) : k \in SetOf(AccountSpecs(aliases, account))}

\* Configuration.associated_accounts(alias)
AssociatedAccounts(aliases, alias) ==
    UNION {SetOf(aliases[k].accounts) : k \in SetOf(AliasSpecs(aliases, alias))}

\* tuple(associated_aliases)[0] takes the first alias in the iteration
\* order of a set of strings, which the hash of the strings decides: any
\* member of the set.
Picks(aliases) ==
    LET sets == {AssociatedAliases(aliases, a) : a \in SetOf(AccountKeys(aliases))} \ {{}}
    IN  {pick \in [sets -> SetOf(AliasKeys(aliases))] : \A S \in sets : pick[S] \in S}

\* A body of the ACCOUNTS loop that accepts every spec of an account with
\* no aliases.
AccountRaisesWithAliasesOnly(aliases, account, spec, pick) ==
    LET associated_aliases == AssociatedAliases(aliases, account)
        has_account == InList(F_account, spec.matchex.tokens)
        has_alias == InList(F_alias, spec.matchex.tokens)
    IN  IF associated_aliases = {}
        THEN FALSE
        ELSE IF /\ Cardinality(associated_aliases) = 1
                /\ Cardinality(AssociatedAccounts(aliases, pick[associated_aliases])) = 1
        THEN ~(has_account \/ has_alias \/ spec.matchex.unique)
        ELSE /\ Cardinality(AssociatedAccounts(aliases, pick[associated_aliases])) = 1
             /\ ~(has_alias \/ spec.aliases = <<>>)

\* The body of the ACCOUNTS loop of enforce_uniqueness for one account and
\* one of its specs: whether it raises.
AccountRaises(aliases, account, spec, pick) ==
    LET associated_aliases == AssociatedAliases(aliases, account)
        has_account == InList(F_account, spec.matchex.tokens)
        has_alias == InList(F_alias, spec.matchex.tokens)
    IN  IF associated_aliases = {}
        THEN ~(has_account \/ spec.matchex.unique)
        ELSE IF /\ Cardinality(associated_aliases) = 1
                /\ Cardinality(AssociatedAccounts(aliases, pick[associated_aliases])) = 1
        THEN ~(has_account \/ has_alias \/ spec.matchex.unique)
        ELSE /\ Cardinality(AssociatedAccounts(aliases, pick[associated_aliases])) = 1
             /\ ~(has_alias \/ spec.aliases = <<>>)

\* A body of the ALIASES loop that accepts every spec.
AliasNeverRaises(aliases, alias, spec) == FALSE

\* The body of the ALIASES loop for one alias and one of its specs.
AliasRaises(aliases, alias, spec) ==
    /\ ~(Cardinality(AssociatedAccounts(aliases, alias)) < 2)
    /\ ~(InList(F_account, spec.matchex.tokens) /\ InList(F_alias, spec.matchex.tokens))

\* The specs enforce_uniqueness looks at, in the order it looks at them,
\* each with whether it raises there.
UniquenessSteps(aliases, pick) ==
    Flatten([a \in 1..Len(AccountKeys(aliases)) |->
        LET account == AccountKeys(aliases)[a]
            specs == AccountSpecs(aliases, account)
        IN  [j \in 1..Len(specs) |->
                [spec |-> specs[j],
                 raises |-> AccountRaises(aliases, account, aliases[specs[j]], pick)]]])
    \o
    Flatten([a \in 1..Len(AliasKeys(aliases)) |->
        LET alias == AliasKeys(aliases)[a]
            specs == AliasSpecs(aliases, alias)
        IN  [j \in 1..Len(specs) |->
                [spec |-> specs[j],
                 raises |-> AliasRaises(aliases, alias, aliases[specs[j]])]]])

\* Configuration.enforce_uniqueness: 0 when it returns, else the line
\* number the SemanticError it raises carries.
EnforceUniqueness(aliases, pick) ==
    LET steps == UniquenessSteps(aliases, pick)
        raising == {j \in 1..Len(steps) : steps[j].raises}
    IN  IF raising = {} THEN 0
        ELSE aliases[steps[CHOOSE j \in raising : \A i \in raising : j <= i].spec]
                .matchex.line_number


\* Configuration.__init__
NewConfiguration ==
    [aliases |-> <<>>, debug_account |-> DEBUG_ACCOUNT, error |-> NotConfigured,
     line_number |-> 0]

\* Alias.semantic_check of the alias at place k: None, the SemanticError
\* of the calc's check, or the KeyError of build_sketch.
AliasSemanticCheck(spec) ==
    IF SemanticCheck(spec.calc, spec.matchex, spec.aliases) # None THEN SemanticError
    ELSE IF ~SketchBuildable(spec.matchex.tokens) THEN KeyError
    ELSE None

\* update_config then Configuration.semantic_check: the aliases with
\* their unique flags, and their sketches up to the first alias whose
\* check raises (0 when none does).
FirstRaising(aliases) ==
    LET raising == {k \in 1..Len(aliases) : AliasSemanticCheck(aliases[k]) # None}
    IN  IF raising = {} THEN 0 ELSE CHOOSE k \in raising : \A j \in raising : k <= j

CheckedUpTo(aliases, first) ==
    [k \in 1..Len(aliases) |->
        [aliases[k] EXCEPT
            !.matchex.unique = Unique(aliases, k),
            !.matchex.built = first = 0 \/ k < first,
            !.matchex.sketch = IF first = 0 \/ k < first
                               THEN BuildSketch(aliases[k].matchex.tokens, aliases[k].calc)
                               ELSE <<>>]]

Checked(aliases) == CheckedUpTo(aliases, FirstRaising(aliases))

\* The configuration object after load, when loader.load() gave
\* new_config, update_config and semantic_check left aliases, the check of
\* the alias at first raised (0: none did), and enforce_uniqueness is
\* called when none did: it raises for the spec at line (0: it returns).
Configured(new_config, aliases, first, pick) ==
    LET debug_account == IF new_config.debug_account # None
                         THEN new_config.debug_account ELSE DEBUG_ACCOUNT
        line == EnforceUniqueness(aliases, pick)
    IN  IF new_config.error # None
        THEN [NewConfiguration EXCEPT !.error = new_config.error,
                                      !.line_number = new_config.line_number]
        ELSE IF first # 0
        THEN [aliases |-> aliases, debug_account |-> debug_account,
              error |-> AliasSemanticCheck(new_config.aliases[first]),
              line_number |-> first]
        ELSE IF line # 0
        THEN [aliases |-> aliases, debug_account |-> debug_account,
              error |-> SemanticError, line_number |-> line]
        ELSE [aliases |-> aliases, debug_account |-> debug_account,
              error |-> <<>>, line_number |-> 0]

\* load, once loader.load() has given new_config.
LoadFrom(new_config, pick) ==
    Configured(new_config, Checked(new_config.aliases), FirstRaising(new_config.aliases),
               pick)

\* Configuration().load(loader): the configuration object afterwards.
\* error is '' when nothing was raised.  A text that does not parse
\* leaves the new configuration as it was made; an error of a later step
\* leaves the parsed aliases in place.
Load(text, pick) == LoadFrom(LoaderLoad(text), pick)

-----------------------------------------------------------------------------
(* The state of the parts of the program that a specification does not     *)
(* run.                                                                    *)

\* No alias spec with a calc is being written.
NoCalcText ==
    [accounts |-> <<>>, aliases |-> <<>>, expression |-> <<>>, func |-> "", params |-> <<>>]

\* The milter and the table server have not been started.
NoMilter == <<>>
LoopIdle == tasks = <<>> /\ service = <<>>
TableIdle == peer = <<>> /\ table = <<>>
ServersIdle == milter = NoMilter /\ LoopIdle /\ TableIdle

OthersIdle == calc_text = NoCalcText /\ checked = None /\ ServersIdle

-----------------------------------------------------------------------------
(* The lookup service: a configuration is loaded, names are looked up.     *)

\* The characters of the names looked up: a letter, a digit and the two
\* punctuation characters of identifiers.
Chars == {"a", "1", "-", "."}
Names == UNION {[1..n -> Chars] : n \in 0..MaxLen}

A_foo == <<"f", "o", "o">>
A_bar == <<"b", "a", "r">>
A_aa == <<"a", "a">>
L_g == <<"g">>
L_p == <<"p">>
A_dbg == <<"d", "b", "g">>

WithChars == <<[func |-> "CHARS", args |-> <<>>]>>
WithLabels == <<[func |-> "LABELS", args |-> <<>>]>>
WithAny == <<[func |-> "ANY", args |-> <<>>]>>
WithDigits == <<[func |-> "DIGITS", args |-> <<>>]>>

\* %field%
F_percent(field) == <<"%">> \o field \o <<"%">>

Statement(accounts, aliases, expression, calcs) ==
    [accounts |-> accounts, aliases |-> aliases, expression |-> expression,
     calcs |-> calcs]

ident_code == <<"%", "i", "d", "e", "n", "t", "%", ".", "%", "c", "o", "d", "e", "%">>
alnum_code == <<"%", "a", "l", "n", "u", "m", "%", ".", "%", "c", "o", "d", "e", "%">>
fqdn_code == <<"%", "f", "q", "d", "n", "%", ".", "%", "c", "o", "d", "e", "%">>
account_code == <<"%", "a", "c", "c", "o", "u", "n", "t", "%", ".", "%", "c", "o", "d", "e", "%">>
ident_a == <<"%", "i", "d", "e", "n", "t", "%", ".", "a">>
code_ident_code == <<"%", "c", "o", "d", "e", "%", ".", "%", "i", "d", "e", "n", "t", "%",
                     ".", "%", "c", "o", "d", "e", "%">>
ident_ident == <<"%", "i", "d", "e", "n", "t", "%", "%", "i", "d", "e", "n", "t", "%">>

\* The configuration texts that are loaded.
Texts ==
    { [statements |-> <<Statement(<<A_foo>>, <<>>, ident_code, WithAny)>>,
       debug_account |-> None],
      [statements |-> <<Statement(<<A_foo>>, <<>>, ident_code, WithDigits)>>,
       debug_account |-> A_dbg],
      [statements |-> <<Statement(<<A_foo>>, <<>>, fqdn_code, WithLabels)>>,
       debug_account |-> None],
      [statements |-> <<Statement(<<A_aa>>, <<>>, account_code, WithChars)>>,
       debug_account |-> None],
      [statements |-> <<Statement(<<A_foo>>, <<>>, ident_code, WithAny),
                        Statement(<<A_bar>>, <<>>, alnum_code, WithAny)>>,
       debug_account |-> None],
      [statements |-> <<Statement(<<A_foo>>, <<>>, ident_code, WithAny),
                        Statement(<<A_bar>>, <<>>, alnum_code, WithAny)>>,
       debug_account |-> A_dbg],
      [statements |-> <<Statement(<<A_foo>>, <<>>, ident_a, WithAny)>>,
       debug_account |-> None],
      [statements |-> <<Statement(<<A_foo>>, <<>>, code_ident_code, WithAny)>>,
       debug_account |-> None],
      [statements |-> <<Statement(<<A_foo>>, <<>>, ident_code, WithAny),
                        Statement(<<A_bar>>, <<>>, ident_code, WithAny)>>,
       debug_account |-> A_dbg],
      [statements |-> <<Statement(<<A_foo>>, <<L_g, L_p>>, ident_code, WithAny)>>,
       debug_account |-> None],
      [statements |-> <<Statement(<<A_foo>>, <<>>, ident_ident, WithAny)>>,
       debug_account |-> None] }

\* No configuration text yet.
NoText == [statements |-> <<>>, debug_account |-> None]

\* No call of calculate is in progress.
NoCalc == [calcs |-> <<>>, code |-> <<>>, identifiers |-> <<>>]

Init ==
    /\ OthersIdle
    /\ pc = "idle"
    /\ config = NewConfiguration
    /\ conf_text = NoText
    /\ name = <<>>
    /\ matches = Return(<<>>)
    /\ result = <<>>
    /\ expr = <<>>
    /\ compiled = Expression(<<>>)
    /\ calculating = NoCalc
    /\ calculated = False

\* Configuration().load(loader) of one of the texts.
LoadConfig ==
    /\ pc = "idle"
    /\ \E t \in Texts :
          \E pick \in Picks(Checked(LoaderLoad(t).aliases)) :
             /\ conf_text' = t
             /\ config' = Load(t, pick)
    /\ UNCHANGED <<pc, name, matches, result, expr, compiled, calculating, calculated, otherVars>>

\* A name arrives to be looked up.
Receive ==
    /\ pc = "idle"
    /\ \E x \in Names : name' = x
    /\ pc' = "request"
    /\ UNCHANGED <<conf_text, config, matches, result, expr, compiled, calculating, calculated, otherVars>>

\* find(name, config)
FindName ==
    /\ pc = "request"
    /\ matches' = SpecMatches(config.aliases, 1, name, <<>>)
    /\ result' = FindResult(matches', config.debug_account)
    /\ pc' = "found"
    /\ UNCHANGED <<conf_text, config, name, expr, compiled, calculating, calculated, otherVars>>

\* The answer is given and the next name awaited.
Answer ==
    /\ pc = "found"
    /\ pc' = "idle"
    /\ name' = <<>>
    /\ matches' = Return(<<>>)
    /\ result' = <<>>
    /\ UNCHANGED <<conf_text, config, expr, compiled, calculating, calculated, otherVars>>

Next == LoadConfig \/ Receive \/ FindName \/ Answer

Spec == Init /\ [][Next]_vars

-----------------------------------------------------------------------------
(* Properties of the lookup service.                                       *)

\* The configuration was loaded without error.
Loaded == config.error = <<>>

\* find has been called; it returned a value.
Found == pc = "found"
Returned == Found /\ matches.error = None

\* The delivery accounts declared by the alias specs of a configuration.
DeclaredAccounts(cfg) ==
    UNION {SetOf(cfg.aliases[k].accounts) : k \in 1..Len(cfg.aliases)}

\* The delivery accounts of the verified matches of one SpecMatch, and of
\* all of them.
AccountsOf(match) ==
    {match.matches[m].delivery_account : m \in 1..Len(match.matches)}
DeliveryAccounts(found) == UNION {AccountsOf(found[k]) : k \in 1..Len(found)}

\* Two different specs verify the name for different delivery accounts.
TwoSpecsDisagree ==
    \E i \in 1..Len(matches.value) : \E j \in 1..Len(matches.value) :
        /\ matches.value[i].spec.matchex.line_number
              # matches.value[j].spec.matchex.line_number
        /\ \E a \in AccountsOf(matches.value[i]) :
              \E b \in AccountsOf(matches.value[j]) : a # b

(* C3: for every input and every loaded configuration, what find returns
   is the empty string, a delivery account declared by an alias spec of the
   configuration, or the configuration's debug account setting (None when
   none is configured); nothing else is returned. *)
C3_FindReturnsConfigured ==
    Returned =>
        result \in {<<>>} \cup DeclaredAccounts(config) \cup {config.debug_account}

\* find returned the debug account of a configuration that sets one.
C3_Witness ==
    /\ Returned /\ Loaded
    /\ config.debug_account # None
    /\ result = config.debug_account
    /\ Cardinality(DeliveryAccounts(matches.value)) > 1

(* C4, as claimed: with D the delivery accounts of all verified matches,
   find returns the account when |D| = 1, the empty string when |D| = 0,
   and when |D| > 1 the debug account, or the empty string if no debug
   account is configured. *)
C4_Original ==
    Returned =>
        LET D == DeliveryAccounts(matches.value)
        IN  /\ Cardinality(D) = 1 => result = CHOOSE a \in D : TRUE
            /\ Cardinality(D) = 0 => result = <<>>
            /\ Cardinality(D) > 1 =>
                  result = IF config.debug_account # None
                           THEN config.debug_account ELSE <<>>

(* C4, amended: find returns the account when |D| = 1 (also when a match
   is flagged ambiguous), the empty string when |D| = 0, and when |D| > 1
   the value of the debug account setting, which is None, not the empty
   string, when no debug account is configured. *)
C4_FindDecision ==
    Returned =>
        LET D == DeliveryAccounts(matches.value)
        IN  /\ Cardinality(D) = 1 => result = CHOOSE a \in D : TRUE
            /\ Cardinality(D) = 0 => result = <<>>
            /\ Cardinality(D) > 1 => result = config.debug_account

\* Two specs resolve a name to different accounts and no debug account is
\* configured.
C4_Witness ==
    /\ Returned
    /\ Cardinality(DeliveryAccounts(matches.value)) > 1
    /\ TwoSpecsDisagree
    /\ config.debug_account = None
    /\ result = None

(* C5, as claimed: in a configuration loaded without error no input is
   matched and verified by two different specs with different delivery
   accounts. *)
C5_Original == (Returned /\ Loaded) => ~TwoSpecsDisagree

(* C5, amended: in a configuration loaded without error, a spec of an
   account that has no associated aliases references %account% or has a
   match expression whose text no other spec has; specs with different
   texts may still verify the same input for different accounts, and find
   then returns the debug account setting. *)
C5_LoadedUniqueness ==
    Loaded =>
        /\ \A k \in 1..Len(config.aliases) :
              \A a \in SetOf(config.aliases[k].accounts) :
                 (\A j \in 1..Len(config.aliases) :
                     InList(a, config.aliases[j].accounts)
                        => config.aliases[j].aliases = <<>>)
                 => \/ InList(F_account, config.aliases[k].matchex.tokens)
                    \/ \A j \in 1..Len(config.aliases) :
                          j # k => config.aliases[j].matchex.expression_
                                      # config.aliases[k].matchex.expression_
        /\ (Returned /\ TwoSpecsDisagree) => result = config.debug_account

\* A configuration of two specs was accepted and both verify the name, for
\* different accounts.
C5_Witness == Returned /\ Loaded /\ TwoSpecsDisagree /\ Len(config.aliases) = 2

(* C7, as claimed: for every loaded configuration and every input, no match
   a spec returns holds an ident or fqdn field value whose first or last
   character is '.' or '-'. *)
C7_Original ==
    (Returned /\ Loaded) =>
        \A k \in 1..Len(matches.value) :
           \A m \in 1..Len(matches.value[k].matches) :
              \A ident \in SetOf(matches.value[k].matches[m].built_match) :
                 (ident.type \in {F_ident, F_fqdn} /\ ident.value # <<>>) =>
                    /\ ident.value[1] \notin {".", "-"}
                    /\ ident.value[Len(ident.value)] \notin {".", "-"}

(* C8, as claimed: for every configuration parsed without error and every
   input, each calc's identifier reference denotes an identifier that
   exists, also for expressions with no identifier field, so find raises
   nothing. *)
C8_Original == (Found /\ Loaded) => matches.error = None

\* The number of code fields of a compiled match expression.
CodeFields(tokens) ==
    Cardinality({k \in 1..Len(tokens) : (k % 2) = 0 /\ tokens[k] = F_code})

(* C9, as claimed: every match expression of a configuration that loads
   without error has exactly one %code% field. *)
C9_Original ==
    Loaded =>
        \A k \in 1..Len(config.aliases) : CodeFields(config.aliases[k].matchex.tokens) = 1


RECURSIVE Splits(_, _)
\* The ways to cut a string into n consecutive pieces.
Splits(x, n) ==
    IF n = 0 THEN (IF x = <<>> THEN {<<>>} ELSE {})
    ELSE UNION {{<<SubSeq(x, 1, i)>> \o rest : rest \in Splits(SubSeq(x, i + 1, Len(x)), n - 1)} :
                  i \in 0..Len(x)}

\* A non-empty string valid for the matcher of a field: its first
\* character of the matcher's start set, its last of the end set, the ones
\* between of the middle set.
ValidField(type, v) ==
    LET char_sets == ALL_MATCHERS(type)
    IN  /\ v # <<>>
        /\ v[1] \in char_sets[1]
        /\ v[Len(v)] \in char_sets[3]
        /\ \A i \in 2..(Len(v) - 1) : v[i] \in char_sets[2]

\* The identifiers among the pieces of an instance, in order.
FieldsOf(tokens, parts) ==
    LET at == SelectSeq([k \in 1..Len(tokens) |-> k],
                        LAMBDA k : (k % 2) = 0 /\ tokens[k] \in IDENT_MATCHER_NAMES)
    IN  [j \in 1..Len(at) |-> [type |-> tokens[at[j]], value |-> parts[at[j]]]]

\* A code that is the concatenation of the values the calcs compute.
ComputedCode(calcs, code, ids) ==
    \E vs \in Splits(code, Len(calcs)) :
        \A c \in 1..Len(calcs) :
            /\ vs[c] # <<>>
            /\ Func(calcs[c].func, vs[c], calcs[c].args, ids) = vs[c]

\* The name instantiates the match expression of the spec with the account
\* and the alias.
InstanceOf(spec, account, alias, x) ==
    LET tokens == spec.matchex.tokens
    IN  \E parts \in Splits(x, Len(tokens)) :
           \A k \in 1..Len(tokens) :
              IF (k % 2) = 1 THEN parts[k] = tokens[k]
              ELSE IF tokens[k] = F_account THEN parts[k] = account
              ELSE IF tokens[k] = F_alias THEN parts[k] = alias
              ELSE IF tokens[k] = F_code
              THEN ComputedCode(spec.calc, parts[k],
                                [identifiers |-> FieldsOf(tokens, parts),
                                 account |-> account, alias |-> alias])
              ELSE ValidField(tokens[k], parts[k])

\* No other spec and account verify the name.
NoOther(line_number, account) ==
    \A k \in 1..Len(matches.value) :
        /\ matches.value[k].spec.matchex.line_number = line_number
        /\ AccountsOf(matches.value[k]) = {account}

(* C1, as claimed: in a configuration loaded without error, an input that
   instantiates a spec's match expression (one with exactly one code
   field, see C9) -- literals verbatim, account and
   alias fields one of the declared ones, identifier fields any non-empty
   string valid for the matcher, strings of length 1 too, and the code the
   values of the calcs -- is resolved by find to the spec's account when no
   other spec and account verify it. *)
C1_Original ==
    (Found /\ Loaded) =>
        \A k \in 1..Len(config.aliases) :
           \A account \in SetOf(config.aliases[k].accounts) :
              \A alias \in SetOf(OrEmpty(config.aliases[k].aliases)) :
                 (/\ CodeFields(config.aliases[k].matchex.tokens) = 1
                  /\ InstanceOf(config.aliases[k], account, alias, name)
                  /\ matches.error = None
                  /\ NoOther(k, account))
                 => result = account

-----------------------------------------------------------------------------
(* CalcExpression.calculate on its own.                                    *)

\* The characters of the codes calculate is given.
CodeChars == {"1", "2", "a"}
Codes == UNION {[1..n -> CodeChars] : n \in 1..MaxCode}

\* The identifier lists calculate is given: one ident, one fqdn, two idents.
IdentifierLists ==
    { <<[type |-> F_ident, value |-> <<"a", "1">>]>>,
      <<[type |-> F_fqdn, value |-> <<"a", ".", "e", "1">>]>>,
      <<[type |-> F_ident, value |-> <<"a", "b", "-", "1">>],
        [type |-> F_alnum, value |-> <<"e", "2">>]>> }

\* The calcs semantic_check lets through for a list of identifiers: no
\* argument when there is one identifier, else the identifier's index;
\* CHAR with a character offset and a default, and a label index for an
\* fqdn.
CalcsFor(identifiers) ==
    LET subscript == IF Len(identifiers) = 1 THEN <<>> ELSE << <<"2">> >>
        char_args == IF identifiers[1].type = F_fqdn
                     THEN << <<"2">>, <<"1">>, <<"-">> >>
                     ELSE subscript \o << <<"2">>, <<"-">> >>
    IN  {[func |-> f, args |-> subscript] :
            f \in {"DIGITS", "ALPHAS", "LABELS", "CHARS", "VOWELS", "ANY", "NONE"}}
        \cup {[func |-> "CHAR", args |-> char_args]}

\* The lists of one calc or two for a list of identifiers.
CalcLists(identifiers) ==
    [1..1 -> CalcsFor(identifiers)] \cup [1..2 -> CalcsFor(identifiers)]

InitCalc ==
    /\ OthersIdle
    /\ pc = "calculate"
    /\ \E identifiers \in IdentifierLists :
          \E cs \in CalcLists(identifiers) :
             \E code \in Codes :
                calculating = [calcs |-> cs, code |-> code, identifiers |-> identifiers]
    /\ calculated = False
    /\ config = NewConfiguration
    /\ conf_text = NoText
    /\ name = <<>>
    /\ matches = Return(<<>>)
    /\ result = <<>>
    /\ expr = <<>>
    /\ compiled = Expression(<<>>)

\* calculating.calculate(code, idents, account, alias)
DoCalculate ==
    /\ pc = "calculate"
    /\ calculated' = Calculate(calculating.calcs, calculating.code, calculating.identifiers, A_foo, <<>>)
    /\ pc' = "calculated"
    /\ UNCHANGED <<conf_text, config, name, matches, result, expr, compiled, calculating, otherVars>>

NextCalc == DoCalculate

SpecCalc == InitCalc /\ [][NextCalc]_vars

\* The concatenation of the pieces from the c-th on.
Rest(vs, c) == Flatten(SubSeq(vs, c, Len(vs)))

\* The code is exactly consumed by the calcs taken left to right: it is
\* cut into one non-empty piece for each calc, each the value its calc
\* yields for the code that remains.
ExactlyConsumed(calcs, code, ids) ==
    \E vs \in Splits(code, Len(calcs)) :
        \A c \in 1..Len(calcs) :
            /\ vs[c] # <<>>
            /\ Func(calcs[c].func, Rest(vs, c), calcs[c].args, ids) = vs[c]

(* C2: calculate succeeds if and only if the code is exactly consumed by
   the calcs taken left to right, each calc yielding a value the remaining
   code starts with and nothing remaining after the last; it then returns
   the code, and the code with one more character at its end does not
   verify. *)
C2_CalculateExactlyConsumes ==
    pc = "calculated" =>
        LET ids == [identifiers |-> calculating.identifiers, account |-> A_foo, alias |-> <<>>]
        IN  /\ Truthy(calculated) <=> ExactlyConsumed(calculating.calcs, calculating.code, ids)
            /\ Truthy(calculated) =>
                  /\ calculated = calculating.code
                  /\ \A ch \in CodeChars :
                        Calculate(calculating.calcs, Append(calculating.code, ch), calculating.identifiers,
                                  A_foo, <<>>) = False

\* calculate verified a code of two calcs.
C2_Witness ==
    /\ pc = "calculated"
    /\ Len(calculating.calcs) = 2
    /\ Truthy(calculated)

-----------------------------------------------------------------------------
(* Writing a match expression and compiling it.                            *)

F_bogus == <<"b", "o", "g", "u", "s">>

\* What a match expression is written from: a field of one of the matcher
\* names or of a name that is none, or a literal.
Field(field) == [field |-> field, text |-> <<"%">> \o field \o <<"%">>]
LiteralPiece(text) == [field |-> <<>>, text |-> text]
Pieces ==
    {Field(f) : f \in ALL_MATCHER_NAMES \cup {F_bogus}} \cup {LiteralPiece(<<"-">>)}

\* The text of an expression written as pieces.
Text(pieces) == Flatten([k \in 1..Len(pieces) |-> pieces[k].text])

InitExpr ==
    /\ OthersIdle
    /\ pc = "writing"
    /\ expr = <<>>
    /\ compiled = Expression(<<>>)
    /\ config = NewConfiguration
    /\ conf_text = NoText
    /\ name = <<>>
    /\ matches = Return(<<>>)
    /\ result = <<>>
    /\ calculating = NoCalc
    /\ calculated = False

\* One more field or literal is written.
Write ==
    /\ pc = "writing"
    /\ Len(expr) < MaxPieces
    /\ \E piece \in Pieces : expr' = Append(expr, piece)
    /\ UNCHANGED <<conf_text, pc, config, name, matches, result, compiled, calculating, calculated, otherVars>>

\* spec.matchex.expression = (text, line_number)
Compile ==
    /\ pc = "writing"
    /\ compiled' = Expression(Text(expr))
    /\ pc' = "compiled"
    /\ UNCHANGED <<conf_text, config, name, matches, result, expr, calculating, calculated, otherVars>>

NextExpr == Write \/ Compile

SpecExpr == InitExpr /\ [][NextExpr]_vars

\* The k-th piece and the next are fields.
Adjacent(pieces, k) == pieces[k].field # <<>> /\ pieces[k + 1].field # <<>>

\* Both from the friendly set, and of different kinds.
FriendlyPair(pieces, k) ==
    /\ pieces[k].field \in {F_alpha, F_number}
    /\ pieces[k + 1].field \in {F_alpha, F_number}
    /\ pieces[k].field # pieces[k + 1].field

(* C10: compiling a match expression raises SemanticError whenever two
   fields are adjacent, unless both are of the friendly set {alpha, number}
   and of different kinds; an expression of recognized field names in
   which every two adjacent fields are such a pair -- a chain alternating
   alpha and number, or no adjacent fields at all -- is accepted. *)
C10_AdjacentFields ==
    pc = "compiled" =>
        /\ (\E k \in 1..(Len(expr) - 1) : Adjacent(expr, k) /\ ~FriendlyPair(expr, k))
              => compiled.error = SemanticError
        /\ (/\ \A k \in 1..Len(expr) : expr[k].field # F_bogus
            /\ \A k \in 1..(Len(expr) - 1) : Adjacent(expr, k) => FriendlyPair(expr, k))
              => compiled.error = None

\* An expression of two adjacent fields that are no friendly pair was
\* compiled, and rejected.
C10_Witness ==
    /\ pc = "compiled"
    /\ \E k \in 1..(Len(expr) - 1) :
          /\ Adjacent(expr, k) /\ ~FriendlyPair(expr, k)
          /\ expr[k].field # F_bogus /\ expr[k + 1].field # F_bogus
    /\ compiled.error = SemanticError

-----------------------------------------------------------------------------
(* Writing a configuration of alias specs and loading it.                  *)

account_ident_code == F_percent(F_account) \o <<".">> \o ident_code
alias_ident_code == F_percent(F_alias) \o <<".">> \o ident_code
account_alias_ident_code == F_percent(F_account) \o <<".">> \o alias_ident_code

\* The alias specs a configuration is written from: one account or two;
\* no alias, one, another, or both; a match expression that references
\* neither the account nor the alias, one, the other, or both.
Statements ==
    {Statement(accounts, aliases, expression, WithAny) :
        accounts \in {<<A_foo>>, <<A_foo, A_bar>>},
        aliases \in {<<>>, <<L_g>>, <<L_p>>, <<L_g, L_p>>},
        expression \in {ident_code, account_ident_code, alias_ident_code,
                        account_alias_ident_code}}

InitUniq ==
    /\ OthersIdle
    /\ pc = "writing"
    /\ conf_text = NoText
    /\ config = NewConfiguration
    /\ name = <<>>
    /\ matches = Return(<<>>)
    /\ result = <<>>
    /\ expr = <<>>
    /\ compiled = Expression(<<>>)
    /\ calculating = NoCalc
    /\ calculated = False

\* One more alias spec is written, on a line of its own.
WriteStatement ==
    /\ pc = "writing"
    /\ Len(conf_text.statements) < MaxSpecs
    /\ \E stmt \in Statements :
          conf_text' = [conf_text EXCEPT !.statements = Append(@, stmt)]
    /\ UNCHANGED <<pc, config, name, matches, result, expr, compiled, calculating,
                   calculated, otherVars>>

\* Configuration().load(loader) of the text written.
LoadText ==
    /\ pc = "writing"
    /\ \E pick \in Picks(Checked(LoaderLoad(conf_text).aliases)) :
          config' = Load(conf_text, pick)
    /\ pc' = "loaded"
    /\ UNCHANGED <<conf_text, name, matches, result, expr, compiled, calculating,
                   calculated, otherVars>>

NextUniq == WriteStatement \/ LoadText

SpecUniq == InitUniq /\ [][NextUniq]_vars


\* The text was loaded, and parsed and passed the semantic check of every
\* alias: enforce_uniqueness was called.
UniquenessEnforced ==
    /\ pc = "loaded"
    /\ Len(config.aliases) = Len(conf_text.statements)
    /\ \A k \in 1..Len(config.aliases) : config.aliases[k].matchex.built

\* What the statements of the text written say for the spec on a line.
References(k, field) == InList(field, Expression(conf_text.statements[k].expression).tokens)
UniqueText(k) ==
    \A j \in 1..Len(conf_text.statements) :
        j # k => conf_text.statements[j].expression # conf_text.statements[k].expression
Accounts(k) == SetOf(conf_text.statements[k].accounts)
Aliases(k) == SetOf(conf_text.statements[k].aliases)
Lines == 1..Len(conf_text.statements)

\* The accounts of the specs that declare the alias, and the aliases of
\* the specs that declare the account.
UsedBy(alias) == UNION {Accounts(k) : k \in {j \in Lines : alias \in Aliases(j)}}
AliasesFor(account) == UNION {Aliases(k) : k \in {j \in Lines : account \in Accounts(j)}}

\* The rule of the claim that the spec on line k violates.
ClaimedViolation(k) ==
    IF Aliases(k) = {}
    THEN ~(References(k, F_account) \/ UniqueText(k))
    ELSE IF \E alias \in Aliases(k) : Cardinality(UsedBy(alias)) > 1
    THEN ~(References(k, F_account) /\ References(k, F_alias))
    ELSE IF Cardinality(Aliases(k)) = 1
    THEN ~(References(k, F_account) \/ References(k, F_alias) \/ UniqueText(k))
    ELSE FALSE

(* C6, as claimed: enforce_uniqueness raises a SemanticError carrying the
   spec's line exactly when some spec violates its rule: a spec with no
   aliases references %account% or is unique; a spec with one alias used
   only by its account references %account% or %alias% or is unique; a
   spec whose alias is used by several accounts references both. *)
C6_Original ==
    UniquenessEnforced =>
        /\ config.error = SemanticError <=> \E k \in Lines : ClaimedViolation(k)
        /\ config.error = SemanticError => ClaimedViolation(config.line_number)

\* The rule enforce_uniqueness applies to the spec on line k as a spec of
\* the account, when first is the alias that the iteration of the set of
\* the account's aliases gives first.
AccountViolation(account, k, first) ==
    IF AliasesFor(account) = {}
    THEN ~(References(k, F_account) \/ UniqueText(k))
    ELSE IF Cardinality(AliasesFor(account)) = 1 /\ Cardinality(UsedBy(first)) = 1
    THEN ~(References(k, F_account) \/ References(k, F_alias) \/ UniqueText(k))
    ELSE /\ Cardinality(UsedBy(first)) = 1
         /\ Aliases(k) # {}
         /\ ~References(k, F_alias)

\* The rule it applies to the spec on line k as a spec of the alias.
AliasViolation(alias, k) ==
    /\ Cardinality(UsedBy(alias)) > 1
    /\ ~(References(k, F_account) /\ References(k, F_alias))

\* The spec on line k violates a rule, for some account or alias it
\* declares, under an iteration order of the alias sets.
Violation(k, pick) ==
    \/ \E account \in Accounts(k) :
          AccountViolation(account, k,
                           IF AliasesFor(account) = {} THEN <<>>
                           ELSE pick[AliasesFor(account)])
    \/ \E alias \in Aliases(k) : AliasViolation(alias, k)

(* C6, amended: the rules are applied to each account with the aliases of
   all the specs that declare it.  enforce_uniqueness raises a
   SemanticError carrying the line of a violating spec, and returns only
   when no spec violates, where a spec of an account violates when: no
   spec of the account has an alias and the spec neither references
   %account% nor is unique; or the account has one alias, used by it alone,
   and the spec references neither %account% nor %alias% nor is unique; or
   else the alias that the iteration of the account's alias set gives
   first is used by one account and the spec declares aliases without
   referencing %alias%; and a spec of an alias used by several accounts
   violates when it does not reference both %account% and %alias%. *)
C6_EnforceUniqueness ==
    UniquenessEnforced =>
        LET picks == Picks(config.aliases)
        IN  /\ config.error \in {<<>>, SemanticError}
            /\ config.error = SemanticError =>
                  \E pick \in picks : Violation(config.line_number, pick)
            /\ config.error = <<>> =>
                  \E pick \in picks : \A k \in Lines : ~Violation(k, pick)

\* A spec with two aliases of its account alone, that references its
\* account and not its alias, is rejected.
C6_Witness ==
    /\ UniquenessEnforced
    /\ config.error = SemanticError
    /\ \E k \in Lines :
          /\ Cardinality(Aliases(k)) = 2
          /\ \A alias \in Aliases(k) : Cardinality(UsedBy(alias)) = 1
          /\ References(k, F_account)
          /\ config.line_number = k

-----------------------------------------------------------------------------
(* parser.py: the parameters of a calc, and the loading of an alias spec   *)
(* whose calc they are.                                                    *)

\* The most arguments a calc takes (those of CHAR).
CHAR_ARGS == 4

\* param and int(param) raises ValueError
NotInt(param) == param # <<>> /\ ~IsInt(param)

\* Whether StreamParsingLoader.parameters(func) raises ParseError, when
\* the text between the parentheses splits at its commas into params.
ParametersError(func, params) ==
    IF func = "CHAR"
    THEN \/ Len(params) < 2
         \/ /\ Len(params) = 3
            /\ ToLower(params[1]) \notin NONINTEGER_PARAM_VALUES
            /\ NotInt(params[1])
         \/ /\ Len(params) # 3
            /\ \E i \in 1..(Len(params) - 1) : NotInt(params[i])
    ELSE \/ Len(params) > 1
         \/ /\ Len(params) > 0
            /\ ToLower(params[1]) \notin NONINTEGER_PARAM_VALUES
            /\ NotInt(params[1])

\* StreamParsingLoader.parameters(func): the arguments of the calc.
Parameters(func, params) ==
    IF ParametersError(func, params) THEN Raise(ParseError)
    ELSE IF Len(params) = 1 /\ params[1] = <<>> THEN Return(<<>>)
    ELSE Return(params)

RECURSIVE ParamsText(_)
\* The text between the parentheses of a calc: its parameters with commas
\* between them.
ParamsText(params) ==
    IF params = <<>> THEN <<>>
    ELSE IF Len(params) = 1 THEN params[1]
    ELSE params[1] \o <<",">> \o ParamsText(Tail(params))

\* The configuration text of one alias spec with one calc, once calcs()
\* has parsed the calc.
CalcText(written, args) ==
    [statements |-> <<Statement(written.accounts, written.aliases, written.expression,
                                <<[func |-> written.func, args |-> args]>>)>>,
     debug_account |-> None]

\* Configuration().load(loader) of that text, when parameters() gave
\* parsed: a ParseError of the loader leaves the new configuration as it
\* was made.
LoadParsed(written, parsed, pick) ==
    IF parsed.error # None
    THEN [NewConfiguration EXCEPT !.error = parsed.error, !.line_number = 1]
    ELSE Load(CalcText(written, parsed.value), pick)

\* The parameters written between the parentheses of a calc.
P_empty == <<>>
P_0 == <<"0">>
P_1 == <<"1">>
P_2 == <<"2">>
P_x == <<"x">>
ParamStrings == {P_empty, P_0, P_1, P_2, P_x, F_alias, F_account}

code_only == <<"%", "c", "o", "d", "e", "%">>
ident_code_fqdn == <<"%", "i", "d", "e", "n", "t", "%", ".", "%", "c", "o", "d", "e", "%", ".",
                     "%", "f", "q", "d", "n", "%">>
CalcExpressions == {code_only, ident_code, fqdn_code, ident_code_fqdn}

InitSem ==
    /\ pc = "writing"
    /\ \E aliases \in {<<>>, <<L_g>>} :
          \E expression \in CalcExpressions :
             \E func \in {"CHARS", "CHAR"} :
                calc_text = [accounts |-> <<A_foo>>, aliases |-> aliases,
                             expression |-> expression, func |-> func,
                             params |-> <<>>]
    /\ checked = None
    /\ config = NewConfiguration
    /\ conf_text = NoText
    /\ name = <<>>
    /\ matches = Return(<<>>)
    /\ result = <<>>
    /\ expr = <<>>
    /\ compiled = Expression(<<>>)
    /\ calculating = NoCalc
    /\ calculated = False
    /\ ServersIdle

\* A comma and one more parameter are written.
WriteParam ==
    /\ pc = "writing"
    /\ Len(calc_text.params) < CHAR_ARGS
    /\ \E param \in ParamStrings :
          calc_text' = [calc_text EXCEPT !.params = Append(@, param)]
    /\ UNCHANGED <<conf_text, pc, config, name, matches, result, expr, compiled, calculating,
                   calculated, checked, serverVars>>

\* Configuration().load(loader) of the alias spec written.
LoadCalcText ==
    /\ pc = "writing"
    /\ \E pick \in Picks(Checked(LoaderLoad(CalcText(calc_text, <<>>)).aliases)) :
          config' = LoadParsed(calc_text,
                               Parameters(calc_text.func,
                                          Split(ParamsText(calc_text.params), ",")),
                               pick)
    /\ pc' = "loaded"
    /\ UNCHANGED <<conf_text, name, matches, result, expr, compiled, calculating, calculated,
                   calc_text, checked, serverVars>>

\* calc.semantic_check(matchex, aliases) of a calc holding the
\* parameters written, with the match expression written.
CheckCalc ==
    /\ pc = "writing"
    /\ checked' = SemanticCheck(<<[func |-> calc_text.func, args |-> calc_text.params]>>,
                                Expression(calc_text.expression), calc_text.aliases)
    /\ pc' = "checked"
    /\ UNCHANGED <<conf_text, config, name, matches, result, expr, compiled, calculating,
                   calculated, calc_text, serverVars>>

NextSem == WriteParam \/ LoadCalcText \/ CheckCalc

SpecSem == InitSem /\ [][NextSem]_vars

-----------------------------------------------------------------------------
(* Properties of the semantic check of a calc.                             *)

\* An argument that is an identifier index: an integer, account or alias.
IndexArgument(arg) == IsInt(arg) \/ arg \in NONINTEGER_PARAM_VALUES

\* semantic_check was called with a calc that is not CHAR and whose
\* arguments are identifier indexes.
CalcChecked ==
    /\ pc = "checked"
    /\ calc_text.func # "CHAR"
    /\ \A i \in 1..Len(calc_text.params) : IndexArgument(calc_text.params[i])

\* The number of identifiers of the match expression written.
NIdentifiers == Expression(calc_text.expression).identifiers

\* The four reasons for which a calc that is not CHAR is rejected.
CalcRejected ==
    LET args == calc_text.params
    IN  \/ Len(args) > 1
        \/ NIdentifiers > 1 /\ Len(args) = 0
        \/ /\ Len(args) > 0
           /\ IsInt(args[1])
           /\ (Int_(args[1]) < 1 \/ Int_(args[1]) > NIdentifiers)
        \/ Len(args) > 0 /\ args[1] = F_alias /\ calc_text.aliases = <<>>

\* C11: for a calc other than CHAR, semantic_check raises SemanticError
\* when the calc has more than one argument, when the match expression has
\* more than one identifier and there is no index argument, when an integer
\* index is outside 1..n_identifiers, or when the argument is alias and the
\* spec declares no aliases; every other calc whose argument is an integer,
\* account or alias is accepted.
C11_CalcSemantics ==
    CalcChecked => checked = IF CalcRejected THEN SemanticError ELSE None

\* The argument account is accepted with a match expression of two
\* identifiers.
C11_Witness ==
    /\ CalcChecked
    /\ calc_text.params = <<F_account>>
    /\ NIdentifiers = 2
    /\ checked = None

\* load() was called for an alias spec whose calc is CHAR; it raised
\* nothing.
CharLoaded == pc = "loaded" /\ calc_text.func = "CHAR" /\ config.error = <<>>

\* Whether the first identifier is the only one and an fqdn.
OnlyFqdn == NIdentifiers = 1 /\ 1 \in Expression(calc_text.expression).fqdns

\* CHAR(i?, label?, offset, default): whether there is an identifier index
\* and a label index among the parameters written, and what they and the
\* character offset are.
HasIndex == Len(calc_text.params) = 4 \/ (Len(calc_text.params) = 3 /\ ~OnlyFqdn)
HasLabel == Len(calc_text.params) = 4 \/ (Len(calc_text.params) = 3 /\ OnlyFqdn)
IndexWritten == IF HasIndex THEN calc_text.params[1] ELSE P_1
OffsetWritten == calc_text.params[Len(calc_text.params) - 1]

\* The identifier the calc refers to is an fqdn.
RefersToFqdn ==
    IsInt(IndexWritten) /\ Int_(IndexWritten) \in Expression(calc_text.expression).fqdns

\* What a CHAR calc that loads has, its character offset left aside.
CharArguments ==
    /\ Len(calc_text.params) >= 2
    /\ NIdentifiers > 1 => HasIndex
    /\ RefersToFqdn <=> HasLabel

\* C12: a configuration with a CHAR calc loads without error only if the
\* calc has at least 2 arguments, an identifier index when the match
\* expression has more than one identifier, a label index exactly when the
\* identifier it refers to is an fqdn, and a character offset that is an
\* integer other than zero.
C12_Original ==
    CharLoaded =>
        /\ CharArguments
        /\ IsInt(OffsetWritten)
        /\ Int_(OffsetWritten) # 0

-----------------------------------------------------------------------------
(* milter.py: the milter protocol on one connection.                       *)

SMFIF_ADDHDRS == 1
SMFIF_ADDRCPT == 4
SMFIF_DELRCPT == 8

SMFIP_NOCONNECT == 1
SMFIP_NOHELO == 2
SMFIP_NOMAIL == 4
SMFIP_NOBODY == 16
SMFIP_NOHDRS == 32
SMFIP_NOEOH == 64
SMFIP_NOUNKNOWN == 256
SMFIP_NODATA == 512
SMFIP_SKIP == 1024
SMFIP_NR_HDR == 128
SMFIP_NR_CONN == 4096
SMFIP_NR_HELO == 8192
SMFIP_NR_MAIL == 16384
SMFIP_NR_RCPT == 32768
SMFIP_NR_DATA == 65536
SMFIP_NR_UNKN == 131072
SMFIP_NR_EOH == 262144
SMFIP_NR_BODY == 524288

RECURSIVE BitAnd(_, _)
\* a & b
BitAnd(a, b) ==
    IF a = 0 \/ b = 0 THEN 0
    ELSE 2 * BitAnd(a \div 2, b \div 2) + (IF a % 2 = 1 /\ b % 2 = 1 THEN 1 ELSE 0)

RECURSIVE BitOr(_, _)
\* a | b
BitOr(a, b) ==
    IF a = 0 THEN b
    ELSE IF b = 0 THEN a
    ELSE 2 * BitOr(a \div 2, b \div 2) + (IF a % 2 = 1 \/ b % 2 = 1 THEN 1 ELSE 0)

RECURSIVE BitOrAll(_)
BitOrAll(flags) == IF flags = <<>> THEN 0 ELSE BitOr(Head(flags), BitOrAll(Tail(flags)))

\* The keys of this dict are the names its keyword arguments have, not
\* the command characters.
SMFIC_TO_SMFIP ==
    [key \in {"SMFIC_HEADER", "SMFIC_CONNECT", "SMFIC_HELO", "SMFIC_MAIL", "SMFIC_RCPT",
              "SMFIC_DATA", "SMFIC_UNKNOWN", "SMFIC_EOH", "SMFIC_BODY"} |->
        CASE key = "SMFIC_HEADER" -> SMFIP_NR_HDR
          [] key = "SMFIC_CONNECT" -> SMFIP_NR_CONN
          [] key = "SMFIC_HELO" -> SMFIP_NR_HELO
          [] key = "SMFIC_MAIL" -> SMFIP_NR_MAIL
          [] key = "SMFIC_RCPT" -> SMFIP_NR_RCPT
          [] key = "SMFIC_DATA" -> SMFIP_NR_DATA
          [] key = "SMFIC_UNKNOWN" -> SMFIP_NR_UNKN
          [] key = "SMFIC_EOH" -> SMFIP_NR_EOH
          [] key = "SMFIC_BODY" -> SMFIP_NR_BODY]

SMFIC_CONTEXT_RESET == {"A", "E", "Q", "K"}
VERSION == 6
ACTIONS_ == BitOr(SMFIF_ADDRCPT, SMFIF_DELRCPT)
PROTO_EXTS ==
    BitOrAll(<<SMFIP_NOCONNECT, SMFIP_NOHELO, SMFIP_NOMAIL, SMFIP_NOBODY, SMFIP_NOHDRS,
               SMFIP_NOEOH, SMFIP_NR_HDR, SMFIP_NOUNKNOWN, SMFIP_NODATA, SMFIP_NR_CONN,
               SMFIP_NR_HELO, SMFIP_NR_MAIL, SMFIP_NR_DATA, SMFIP_NR_UNKN, SMFIP_NR_EOH,
               SMFIP_NR_BODY>>)

\* self.negotiated_proto_exts before the attribute is assigned.
NotNegotiated == 0 - 1

RECURSIVE Strip(_)
\* s.strip(), of the blanks
Strip(s) ==
    IF s = <<>> THEN s
    ELSE IF Head(s) = " " THEN Strip(Tail(s))
    ELSE IF s[Len(s)] = " " THEN Strip(SubSeq(s, 1, Len(s) - 1))
    ELSE s

\* s.find(c) and s.rfind(c)
StrFind(s, c) ==
    IF c \in CharsOf(s) THEN (CHOOSE i \in 1..Len(s) : s[i] = c /\ c \notin CharsOf(SubSeq(s, 1, i - 1))) - 1
    ELSE 0 - 1
StrRFind(s, c) ==
    IF c \in CharsOf(s) THEN (CHOOSE i \in 1..Len(s) : s[i] = c /\ c \notin CharsOf(SubSeq(s, i + 1, Len(s)))) - 1
    ELSE 0 - 1

RECURSIVE JoinWith(_, _)
\* sep.join(parts)
JoinWith(sep, parts) ==
    IF parts = <<>> THEN <<>>
    ELSE IF Len(parts) = 1 THEN parts[1]
    ELSE parts[1] \o sep \o JoinWith(sep, Tail(parts))

\* Recipient.__init__: self.parsed
Parsed(rcpt) == Split(Slice(rcpt, StrFind(rcpt, "<") + 1, StrRFind(rcpt, ">")), "@")

\* Recipient.name() and Recipient.domain(): '' stands for the exception
\* they raise when there is none.
RecipientName(rcpt) == Strip(Parsed(rcpt)[1])
RecipientDomain(rcpt) == Strip(Item(Parsed(rcpt), 0 - 1))

\* Recipient.set_alias(alias): self.alias
SetAlias(rcpt, alias) ==
    <<"<">> \o JoinWith(<<"@">>, <<alias>> \o Tail(Parsed(rcpt))) \o <<">">>

\* MilterServer.unpack_strings, then the strings that are not empty.
UnpackStrings(strings) ==
    SelectSeq(IF strings # <<>> /\ strings[Len(strings)] = <<>>
              THEN SubSeq(strings, 1, Len(strings) - 1) ELSE strings,
              LAMBDA str : str # <<>>)

\* A reply written with write_command.
Reply(cmd, strings) == [cmd |-> cmd, strings |-> strings, data |-> <<>>]

\* MilterServer.__init__, with what service_requests did for the command
\* it read last: the replies written, the names given to check_trualias
\* and the addresses and statuses of verify_account; and how
\* service_requests stands: serving, returned, or the exception it
\* raised.  before is self.recipients as that command was read.
NewMilter ==
    [recipients |-> <<>>, negotiated_proto_exts |-> NotNegotiated, command |-> "",
     payload |-> <<>>, before |-> <<>>, written |-> <<>>, resolved |-> <<>>,
     verified |-> <<>>, task |-> "serving"]

\* The milter as a command is read.
ReadCommand(m, cmd, payload) ==
    [m EXCEPT !.command = cmd, !.payload = payload, !.before = m.recipients,
              !.written = <<>>, !.resolved = <<>>, !.verified = <<>>]

\* A last if that resets the context on abort only.
ContextResetOnAbort(m) ==
    IF m.task = "serving" /\ m.command = "A" THEN [m EXCEPT !.recipients = <<>>] ELSE m

\* The last if of the loop body.
ContextReset(m) ==
    IF m.task # "serving" THEN m
    ELSE IF m.command \in SMFIC_CONTEXT_RESET THEN [m EXCEPT !.recipients = <<>>]
    ELSE IF m.command \in DOMAIN SMFIC_TO_SMFIP
    THEN IF m.negotiated_proto_exts = NotNegotiated
         THEN [m EXCEPT !.task = "AttributeError"]
         ELSE IF BitAnd(m.negotiated_proto_exts, SMFIC_TO_SMFIP[m.command]) = 0
         THEN [m EXCEPT !.written = Append(@, Reply("c", <<>>))]
         ELSE m
    ELSE m

\* An option negotiation that answers with the extensions offered.
OptNegEchoesOffered(m, version, actions_offered, protocol_exts_offered) ==
    IF version # VERSION THEN [m EXCEPT !.task = "CapabilitiesMissingException"]
    ELSE IF BitAnd(actions_offered, ACTIONS_) # ACTIONS_
    THEN [m EXCEPT !.task = "CapabilitiesMissingException"]
    ELSE [m EXCEPT !.negotiated_proto_exts = protocol_exts_offered,
                   !.written = Append(@, [cmd |-> "O", strings |-> <<>>,
                                          data |-> <<VERSION, ACTIONS_,
                                                     protocol_exts_offered>>])]

\* Option negotiation.
OptNeg(m, version, actions_offered, protocol_exts_offered) ==
    IF version # VERSION THEN [m EXCEPT !.task = "CapabilitiesMissingException"]
    ELSE IF BitAnd(actions_offered, ACTIONS_) # ACTIONS_
    THEN [m EXCEPT !.task = "CapabilitiesMissingException"]
    ELSE [m EXCEPT !.negotiated_proto_exts = BitAnd(protocol_exts_offered, PROTO_EXTS),
                   !.written = Append(@, [cmd |-> "O", strings |-> <<>>,
                                          data |-> <<VERSION, ACTIONS_,
                                                     BitAnd(protocol_exts_offered,
                                                            PROTO_EXTS)>>])]

\* verify_account of milter_server.py: True, False or the exception.
VerifyAccount(status) ==
    IF status >= 200 /\ status < 300 THEN "True"
    ELSE IF status = 550 THEN "False"
    ELSE "UnexpectedSmtpStatus"

\* An end of the body that records the recipient whatever the verifier
\* says.
VerifyRecordsAll(m, rcpt, alias, status) ==
    IF VerifyAccount(status) = "UnexpectedSmtpStatus"
    THEN [m EXCEPT !.verified = Append(@, [address |-> alias, status |-> status]),
                   !.task = VerifyAccount(status)]
    ELSE [m EXCEPT !.verified = Append(@, [address |-> alias, status |-> status]),
                   !.recipients = Append(@, [rcpt |-> rcpt, alias |-> alias]),
                   !.written = Append(@, Reply(IF VerifyAccount(status) = "True" THEN "c" ELSE "r",
                                               <<>>))]

\* The end of the body of the RCPT loop: verify_account is awaited with
\* the alias.
Verify(m, rcpt, alias, status) ==
    LET verifying == [m EXCEPT !.verified = Append(@, [address |-> alias, status |-> status])]
    IN  IF VerifyAccount(status) = "True"
        THEN [verifying EXCEPT !.recipients = Append(@, [rcpt |-> rcpt, alias |-> alias]),
                               !.written = Append(@, Reply("c", <<>>))]
        ELSE IF VerifyAccount(status) = "False"
        THEN [verifying EXCEPT !.written = Append(@, Reply("r", <<>>))]
        ELSE [verifying EXCEPT !.task = VerifyAccount(status)]

\* A body that verifies the recipient as it came.
ResolvedUnaliased(m, rcpt, resolved, status) == Verify(m, rcpt, rcpt, status)

\* The try of the body of the RCPT loop when check_trualias gave resolved,
\* and then the verification.
Resolved(m, rcpt, resolved, status) ==
    IF resolved \in {IndexError, AttributeError} THEN [m EXCEPT !.task = resolved[1]]
    ELSE Verify(m, rcpt, IF Truthy(resolved) THEN SetAlias(rcpt, resolved) ELSE rcpt, status)

\* The body of the RCPT loop for one recipient; domains are the local
\* delivery domains, cfg the configuration check_trualias looks in.
RcptBody(m, rcpt, status, domains, cfg) ==
    IF RecipientDomain(rcpt) = <<>> THEN [m EXCEPT !.task = "NoDomainNameException"]
    ELSE IF ToLower(RecipientDomain(rcpt)) \notin domains
    THEN [m EXCEPT !.recipients = Append(@, [rcpt |-> rcpt, alias |-> rcpt])]
    ELSE IF RecipientName(rcpt) = <<>> THEN Verify(m, rcpt, rcpt, status)
    ELSE Resolved([m EXCEPT !.resolved = Append(@, RecipientName(rcpt))], rcpt,
                  Find(RecipientName(rcpt), cfg), status)

RECURSIVE RcptLoop(_, _, _, _, _, _)
\* The RCPT loop from the recipient at k on; statuses[k] is the status
\* the verifier gives when it is asked about that recipient.
RcptLoop(m, rcpts, statuses, k, domains, cfg) ==
    IF k > Len(rcpts) \/ m.task # "serving" THEN m
    ELSE RcptLoop(RcptBody(m, rcpts[k], statuses[k], domains, cfg), rcpts, statuses, k + 1,
                  domains, cfg)

RECURSIVE EobLoopAliasFirst(_, _)
\* A loop that adds the alias before it removes the original.
EobLoopAliasFirst(recipients, k) ==
    IF k > Len(recipients) THEN <<Reply("c", <<>>)>>
    ELSE (IF recipients[k].rcpt # recipients[k].alias
          THEN <<Reply("+", <<recipients[k].alias>>), Reply("-", <<recipients[k].rcpt>>)>>
          ELSE <<>>)
         \o EobLoopAliasFirst(recipients, k + 1)

RECURSIVE EobLoop(_, _)
\* The replies of end of body for the recipients from k on.
EobLoop(recipients, k) ==
    IF k > Len(recipients) THEN <<Reply("c", <<>>)>>
    ELSE (IF recipients[k].rcpt # recipients[k].alias
          THEN <<Reply("-", <<recipients[k].rcpt>>), Reply("+", <<recipients[k].alias>>)>>
          ELSE <<>>)
         \o EobLoop(recipients, k + 1)

\* End of body.
Eob(m) == [m EXCEPT !.written = @ \o EobLoop(m.recipients, 1)]

-----------------------------------------------------------------------------
(* One milter connection: the MTA sends commands, service_requests        *)
(* handles them one after the other.                                       *)

\* What the MTA offers in option negotiation.
OfferedVersions == {VERSION, 2}
OfferedActions ==
    {ACTIONS_, SMFIF_ADDRCPT, BitOrAll(<<SMFIF_ADDHDRS, SMFIF_ADDRCPT, SMFIF_DELRCPT>>)}
OfferedExts == {0, BitOrAll(<<PROTO_EXTS, SMFIP_NR_RCPT, SMFIP_SKIP>>)}

\* The recipients of RCPT commands: two with an alias that resolves, one
\* that does not resolve, one of a domain that is not local, one without
\* localpart, one without @ and an empty one.
R_alias == <<"<", "a", "a", ".", "a", "@", "x", ">">>
R_alias2 == <<"<", "a", "b", ".", "b", "@", "x", ">">>
R_plain == <<"<", "a", "@", "x", ">">>
R_remote == <<"<", "a", "a", ".", "a", "@", "y", ">">>
R_nolocal == <<"<", "@", "x", ">">>
R_noat == <<"<", "a", ">">>
R_empty == <<"<", ">">>
Rcpts == {R_alias, R_alias2, R_plain, R_remote, R_nolocal, R_noat, R_empty}

\* The ESMTP arguments of a RCPT command: none, or one.
EsmtpArgs == {<<>>, <<<<"N", "=", "s">>>>}

\* The statuses of the verifier.
Statuses == {250, 550, 450}

\* LOCAL DOMAINS of the configuration, and its alias specs.
LocalDomains == {<<"x">>}
MilterText ==
    [statements |-> <<Statement(<<A_foo>>, <<>>, ident_code, WithAny)>>,
     debug_account |-> None]

\* The commands service_requests has no branch for, and those that end
\* a message or the connection.
OtherCommands == {"D", "C", "U", "H", "M", "T", "L", "N", "B"}
ResetCommands == {"A", "Q", "K"}

InitMilter ==
    /\ pc = "milter"
    /\ milter = NewMilter
    /\ \E pick \in Picks(Checked(LoaderLoad(MilterText).aliases)) :
          config = Load(MilterText, pick)
    /\ conf_text = MilterText
    /\ name = <<>>
    /\ matches = Return(<<>>)
    /\ result = <<>>
    /\ expr = <<>>
    /\ compiled = Expression(<<>>)
    /\ calculating = NoCalc
    /\ calculated = False
    /\ calc_text = NoCalcText
    /\ checked = None
    /\ LoopIdle
    /\ TableIdle

\* The command O is read and handled.
MilterOptNeg ==
    /\ milter.task = "serving"
    /\ \E version \in OfferedVersions :
          \E actions_offered \in OfferedActions :
             \E protocol_exts_offered \in OfferedExts :
                milter' = ContextReset(OptNeg(ReadCommand(milter, "O",
                                                          <<version, actions_offered,
                                                            protocol_exts_offered>>),
                                              version, actions_offered,
                                              protocol_exts_offered))
    /\ UNCHANGED <<conf_text, pc, config, name, matches, result, expr, compiled, calculating,
                   calculated, calc_text, checked, loopVars, tableVars>>

\* The command R is read and handled: its payload holds a recipient and
\* the ESMTP arguments of the RCPT command, each ended by a NUL; the
\* verifier answers with status when it is asked.
MilterRcpt ==
    /\ milter.task = "serving"
    /\ \E rcpt \in Rcpts :
          \E args \in EsmtpArgs :
             \E status \in Statuses :
                /\ Len(milter.recipients) + 1 + Len(args) <= MaxRcpts
                /\ milter' = ContextReset(RcptLoop(ReadCommand(milter, "R",
                                                               <<rcpt>> \o args \o <<<<>>>>),
                                                   UnpackStrings(<<rcpt>> \o args \o <<<<>>>>),
                                                   [k \in 1..(1 + Len(args)) |-> status], 1,
                                                   LocalDomains, config))
    /\ UNCHANGED <<conf_text, pc, config, name, matches, result, expr, compiled, calculating,
                   calculated, calc_text, checked, loopVars, tableVars>>

\* The command E is read and handled.
MilterEob ==
    /\ milter.task = "serving"
    /\ milter' = ContextReset(Eob(ReadCommand(milter, "E", <<>>)))
    /\ UNCHANGED <<conf_text, pc, config, name, matches, result, expr, compiled, calculating,
                   calculated, calc_text, checked, loopVars, tableVars>>

\* Another command is read and handled.
MilterOther ==
    /\ milter.task = "serving"
    /\ \E cmd \in OtherCommands \cup ResetCommands :
          milter' = ContextReset(ReadCommand(milter, cmd, <<>>))
    /\ UNCHANGED <<conf_text, pc, config, name, matches, result, expr, compiled, calculating,
                   calculated, calc_text, checked, loopVars, tableVars>>

\* read_command finds the connection at its end: service_requests
\* returns.
MilterEof ==
    /\ milter.task = "serving"
    /\ milter' = [milter EXCEPT !.task = "returned"]
    /\ UNCHANGED <<conf_text, pc, config, name, matches, result, expr, compiled, calculating,
                   calculated, calc_text, checked, loopVars, tableVars>>

NextMilter == MilterOptNeg \/ MilterRcpt \/ MilterEob \/ MilterOther \/ MilterEof

SpecMilter == InitMilter /\ [][NextMilter]_vars

-----------------------------------------------------------------------------
(* Properties of the milter connection.                                    *)

\* The command read last has been handled to its end.
Handled(cmd) == milter.command = cmd /\ milter.task \in {"serving", "returned"}

\* An offer the milter is to go on with.
Acceptable(offer) ==
    /\ offer[1] = 6
    /\ BitAnd(offer[2], SMFIF_ADDRCPT) # 0
    /\ BitAnd(offer[2], SMFIF_DELRCPT) # 0

\* C13: on option negotiation the milter goes on only if the version
\* offered is 6 and the actions offered hold ADDRCPT and DELRCPT; if not it
\* writes no reply and handles no further command of the connection.  When
\* it goes on it writes one O reply with version 6, the actions
\* ADDRCPT|DELRCPT and the extensions offered that are in PROTO_EXTS, so
\* no extension bit is echoed that was not offered.
C13_OptionNegotiation ==
    /\ milter.command = "O" =>
          IF Acceptable(milter.payload)
          THEN /\ milter.task \in {"serving", "returned"}
               /\ Len(milter.written) = 1
               /\ milter.written[1].cmd = "O"
               /\ milter.written[1].data =
                     <<6, SMFIF_ADDRCPT + SMFIF_DELRCPT, BitAnd(milter.payload[3], PROTO_EXTS)>>
               /\ BitAnd(milter.written[1].data[3], milter.payload[3])
                     = milter.written[1].data[3]
               /\ milter.negotiated_proto_exts = milter.written[1].data[3]
          ELSE /\ milter.task = "CapabilitiesMissingException"
               /\ milter.written = <<>>
    /\ milter.task = "CapabilitiesMissingException" =>
          milter.command = "O" /\ ~Acceptable(milter.payload)

\* An offer with extensions the milter does not support was accepted, and
\* answered without them.
C13_Witness ==
    /\ Handled("O")
    /\ BitAnd(milter.payload[3], SMFIP_NR_RCPT) # 0
    /\ milter.written[1].data[3] # milter.payload[3]
    /\ milter.written[1].data[3] # 0

\* The recipients of the RCPT command read last, and what <local@domain>
\* says of one of them.
RcptsRead == SelectSeq(milter.payload, LAMBDA r : r # <<>>)
At(r) == CHOOSE i \in 1..Len(r) : r[i] = "@"
HasAt(r) == "@" \in CharsOf(r)
LocalPart(r) == SubSeq(r, 2, At(r) - 1)
DomainPart(r) == SubSeq(r, At(r) + 1, Len(r) - 1)
IsLocal(r) == HasAt(r) /\ DomainPart(r) \in LocalDomains

\* The alias a recipient of a local domain is to have: the localpart the
\* resolver gives in place of its own, or the recipient as it is.
AliasOf(r) ==
    IF LocalPart(r) # <<>> /\ Find(LocalPart(r), config) \notin {<<>>, None}
    THEN <<"<">> \o Find(LocalPart(r), config) \o <<"@">> \o DomainPart(r) \o <<">">>
    ELSE r

\* The recipients of the command that are of a local domain, and what is
\* to be recorded for the command when the verifier answered them with
\* the statuses in answers.
LocalRead == SelectSeq(RcptsRead, IsLocal)
RECURSIVE Recorded(_, _, _)
Recorded(rcpts, answers, acc) ==
    IF rcpts = <<>> THEN acc
    ELSE IF ~IsLocal(Head(rcpts))
    THEN Recorded(Tail(rcpts), answers, Append(acc, [rcpt |-> Head(rcpts), alias |-> Head(rcpts)]))
    ELSE Recorded(Tail(rcpts), Tail(answers),
                  IF Head(answers).status \in 200..299
                  THEN Append(acc, [rcpt |-> Head(rcpts), alias |-> AliasOf(Head(rcpts))])
                  ELSE acc)

\* C14: for the RCPT recipients of a local domain the resolver is called
\* with the localpart; a result that is not empty takes the place of the
\* localpart in the alias, an empty one leaves the address as it is; the
\* verifier is called once with the alias; and c is written and the
\* recipient recorded when the verifier accepts, r is written when it
\* rejects.
C14_Rcpt ==
    Handled("R") =>
        /\ milter.resolved =
              [j \in 1..Len(SelectSeq(LocalRead, LAMBDA r : LocalPart(r) # <<>>)) |->
                  LocalPart(SelectSeq(LocalRead, LAMBDA r : LocalPart(r) # <<>>)[j])]
        /\ Len(milter.verified) = Len(LocalRead)
        /\ \A j \in 1..Len(LocalRead) :
              /\ milter.verified[j].address = AliasOf(LocalRead[j])
              /\ milter.written[j].cmd =
                    IF milter.verified[j].status \in 200..299 THEN "c" ELSE "r"
        /\ Len(milter.written) = Len(LocalRead)
        /\ milter.recipients = Recorded(RcptsRead, milter.verified, milter.before)

\* A recipient of a local domain whose alias resolves is accepted by the
\* verifier and recorded after another recipient.
C14_Witness ==
    /\ Handled("R")
    /\ RcptsRead = <<R_alias>>
    /\ milter.verified = <<[address |-> <<"<">> \o A_foo \o <<"@", "x", ">">>, status |-> 250]>>
    /\ milter.written = <<Reply("c", <<>>)>>
    /\ Len(milter.recipients) = 2

\* The recorded recipients whose alias is not their address.
Changed(recipients) == SelectSeq(recipients, LAMBDA r : r.alias # r.rcpt)

\* C15: at end of body the milter writes, for the recorded recipients
\* whose alias is not the original address and in the order they were
\* recorded, - with the original and next to it + with the alias, nothing
\* for the other recipients, and after all of them one c.
C15_EndOfBody ==
    Handled("E") =>
        /\ Len(milter.written) = 2 * Len(Changed(milter.before)) + 1
        /\ \A j \in 1..Len(Changed(milter.before)) :
              /\ milter.written[2 * j - 1] = Reply("-", <<Changed(milter.before)[j].rcpt>>)
              /\ milter.written[2 * j] = Reply("+", <<Changed(milter.before)[j].alias>>)
        /\ milter.written[Len(milter.written)] = Reply("c", <<>>)

\* End of body with two recipients to rewrite.
C15_Witness ==
    /\ Handled("E")
    /\ Len(Changed(milter.before)) = 2
    /\ milter.before[1].rcpt # milter.before[2].rcpt

\* The bit of the extensions that says the MTA awaits no reply to a
\* command.
NoReplyBit(cmd) ==
    CASE cmd = "L" -> SMFIP_NR_HDR
      [] cmd = "C" -> SMFIP_NR_CONN
      [] cmd = "H" -> SMFIP_NR_HELO
      [] cmd = "M" -> SMFIP_NR_MAIL
      [] cmd = "T" -> SMFIP_NR_DATA
      [] cmd = "U" -> SMFIP_NR_UNKN
      [] cmd = "N" -> SMFIP_NR_EOH
      [] cmd = "B" -> SMFIP_NR_BODY

\* C16: after option negotiation, for a command it has no branch for
\* (connect, HELO, MAIL, DATA, header, end of headers, body, unknown) the
\* milter writes one c, unless the extensions negotiated hold the no-reply
\* bit of the command: then it writes nothing.
C16_Original ==
    \A cmd \in {"C", "H", "M", "T", "L", "N", "B", "U"} :
        Handled(cmd) /\ milter.negotiated_proto_exts # NotNegotiated =>
            milter.written = IF BitAnd(milter.negotiated_proto_exts, NoReplyBit(cmd)) # 0
                             THEN <<>> ELSE <<Reply("c", <<>>)>>

\* A recipient that does not parse: it has no @ or no localpart.
Unparsed(r) == ~HasAt(r) \/ LocalPart(r) = <<>>

\* C18: a RCPT recipient that has no @ or no localpart is passed through
\* as it is: its alias is the string itself, end of body does not rewrite
\* it, and the handling of it does not end the loop of the connection.
C18_Original ==
    /\ milter.command = "R" /\ (\A k \in 1..Len(RcptsRead) : Unparsed(RcptsRead[k])) =>
          milter.task \in {"serving", "returned", "UnexpectedSmtpStatus"}
    /\ \A k \in 1..Len(milter.recipients) :
          Unparsed(milter.recipients[k].rcpt) =>
              milter.recipients[k].alias = milter.recipients[k].rcpt

-----------------------------------------------------------------------------
(* milter_server.py: the event loop with the listener and the              *)
(* handle_requests task of every connection.                               *)

Conns == 1..MaxConns

\* main() as it enters loop.run_forever(): the loop runs, the server
\* listens, the watchdog task is created, nothing is logged.
NewService ==
    [loop |-> "running", server |-> "listening", watchdog |-> "running", logged |-> <<>>]

\* A connection nobody has made yet.  at is where its handle_requests
\* task stands, status the last status the verifier gave on it, caught
\* whether the task has caught UnexpectedSmtpStatus.
NoTask == [at |-> "none", status |-> 0, caught |-> FALSE]

\* The loop runs callbacks: in run_forever, and after loop.stop() in the
\* run_until_complete calls of main() until the loop is closed.
Iterating == service.loop # "closed"

InitLoop ==
    /\ pc = "milter"
    /\ tasks = [c \in Conns |-> NoTask]
    /\ service = NewService
    /\ milter = NoMilter
    /\ config = NewConfiguration
    /\ conf_text = NoText
    /\ name = <<>>
    /\ matches = Return(<<>>)
    /\ result = <<>>
    /\ expr = <<>>
    /\ compiled = Expression(<<>>)
    /\ calculating = NoCalc
    /\ calculated = False
    /\ calc_text = NoCalcText
    /\ checked = None
    /\ TableIdle

\* The listener accepts a connection and starts handle_requests for it,
\* which awaits service_requests.
Connect(c) ==
    /\ Iterating
    /\ service.server = "listening"
    /\ tasks[c].at = "none"
    /\ tasks' = [tasks EXCEPT ![c].at = "service_requests"]
    /\ UNCHANGED <<conf_text, pc, config, name, matches, result, expr, compiled, calculating,
                   calculated, calc_text, checked, milter, service, tableVars>>

\* What handle_requests does when service_requests handles a RCPT whose
\* verification gives a status: it goes on, or it catches
\* UnexpectedSmtpStatus, logs it, stops the event loop and awaits
\* smtp.quit().
Verified_(task, status) ==
    IF VerifyAccount(status) = "UnexpectedSmtpStatus"
    THEN [task EXCEPT !.at = "quit", !.status = status, !.caught = TRUE]
    ELSE [task EXCEPT !.status = status]

Stopped(srv, status) ==
    IF VerifyAccount(status) = "UnexpectedSmtpStatus"
    THEN [srv EXCEPT !.loop = IF @ = "running" THEN "stopped" ELSE @,
                     !.logged = Append(@, status)]
    ELSE srv

\* service_requests of a connection handles a RCPT command.
ServeRcpt(c) ==
    /\ Iterating
    /\ tasks[c].at = "service_requests"
    /\ \E status \in Statuses :
          /\ tasks' = [tasks EXCEPT ![c] = Verified_(@, status)]
          /\ service' = Stopped(service, status)
    /\ UNCHANGED <<conf_text, pc, config, name, matches, result, expr, compiled, calculating,
                   calculated, calc_text, checked, milter, tableVars>>

\* service_requests of a connection raises an exception handle_requests
\* does not catch: the task ends with it.
ServeRaises(c) ==
    /\ Iterating
    /\ tasks[c].at = "service_requests"
    /\ tasks' = [tasks EXCEPT ![c].at = "failed"]
    /\ UNCHANGED <<conf_text, pc, config, name, matches, result, expr, compiled, calculating,
                   calculated, calc_text, checked, milter, service, tableVars>>

\* service_requests of a connection returns at the end of the stream.
ServeEof(c) ==
    /\ Iterating
    /\ tasks[c].at = "service_requests"
    /\ tasks' = [tasks EXCEPT ![c].at = "quit"]
    /\ UNCHANGED <<conf_text, pc, config, name, matches, result, expr, compiled, calculating,
                   calculated, calc_text, checked, milter, service, tableVars>>

\* smtp.quit() is done: the writer is closed and handle_requests returns.
Quit(c) ==
    /\ Iterating
    /\ tasks[c].at = "quit"
    /\ tasks' = [tasks EXCEPT ![c].at = "closed"]
    /\ UNCHANGED <<conf_text, pc, config, name, matches, result, expr, compiled, calculating,
                   calculated, calc_text, checked, milter, service, tableVars>>

\* run_forever has returned: main() cancels the watchdog, closes the
\* server and closes the loop.
Shutdown ==
    /\ service.loop = "stopped"
    /\ service' = [service EXCEPT !.loop = "closed", !.server = "closed",
                                  !.watchdog = "cancelled"]
    /\ UNCHANGED <<conf_text, pc, config, name, matches, result, expr, compiled, calculating,
                   calculated, calc_text, checked, milter, tasks, tableVars>>

NextLoop ==
    \/ \E c \in Conns : Connect(c)
    \/ \E c \in Conns : ServeRcpt(c)
    \/ \E c \in Conns : ServeRaises(c)
    \/ \E c \in Conns : ServeEof(c)
    \/ \E c \in Conns : Quit(c)
    \/ Shutdown

SpecLoop == InitLoop /\ [][NextLoop]_vars

\* The verifier gave a status that is neither 2xx nor 550 on a connection.
Unexpected(c) == tasks[c].caught

\* C17: when the verifier gives a status that is neither 2xx nor 550
\* while a connection handles a RCPT, the failure is logged and the
\* connection is closed; the listener and the other connections are
\* served on.
C17_Original ==
    \A c \in Conns :
        Unexpected(c) =>
            /\ service.logged # <<>>
            /\ tasks[c].at \in {"quit", "closed"}
            /\ service.loop # "closed"
            /\ service.server = "listening"

-----------------------------------------------------------------------------
(* tcp_table_server.py: the table server.  Request makes the response to   *)
(* one line, handle_requests serves the lines of one connection, the       *)
(* configuration watchdog reloads the configuration file when its          *)
(* modification time has grown, and the statistics reporter prints the     *)
(* statistics.                                                             *)

UnicodeDecodeError == <<"UnicodeDecodeError">>

\* A byte, written as one character, that no UTF-8 text holds.
InvalidByte == "FF"

\* data.decode()
Decode(data) == IF InvalidByte \in CharsOf(data) THEN UnicodeDecodeError ELSE data

Whitespace == {" ", "\t", "\n", "\r", "\f"}

RECURSIVE WordsFrom(_, _)
\* The words of s from its first character on, cur being the word begun.
WordsFrom(s, cur) ==
    IF s = <<>> THEN (IF cur = <<>> THEN <<>> ELSE <<cur>>)
    ELSE IF Head(s) \in Whitespace
    THEN (IF cur = <<>> THEN <<>> ELSE <<cur>>) \o WordsFrom(Tail(s), <<>>)
    ELSE WordsFrom(Tail(s), Append(cur, Head(s)))

\* message.strip().split()
Words(message) == WordsFrom(message, <<>>)

V_get == <<"g", "e", "t">>
V_stats == <<"s", "t", "a", "t", "s">>
V_jstats == <<"j", "s", "t", "a", "t", "s">>

\* Request.COMMANDS: the number of words of a request, by its verb.
COMMANDS == (V_get :> 2) @@ (V_stats :> 1) @@ (V_jstats :> 1)

unrecognized_command == <<"u", "n", "r", "e", "c", "o", "g", "n", "i", "z", "e", "d", " ", "c", "o", "m", "m",
      "a", "n", "d">>
improperly_formed_request == <<"i", "m", "p", "r", "o", "p", "e", "r", "l", "y", " ", "f", "o", "r", "m", "e", "d",
      " ", "r", "e", "q", "u", "e", "s", "t">>
statistics_disabled == <<"s", "t", "a", "t", "i", "s", "t", "i", "c", "s", " ", "d", "i", "s", "a", "b", "l",
      "e", "d">>
not_found == <<"5", "0", "0", " ", "n", "o", "t", " ", "f", "o", "u", "n", "d", "\n">>

\* Request.validate_request: '' or what is wrong with the request.
\* statistics is whether statistics are collected.
ValidateRequest(request, statistics) ==
    LET verb == ToLower(request[1])
    IN  IF verb \notin DOMAIN COMMANDS THEN unrecognized_command
        ELSE IF Len(request) # COMMANDS[verb] THEN improperly_formed_request
        ELSE IF verb = V_stats /\ ~statistics THEN statistics_disabled
        ELSE <<>>

\* What a Request leaves: its response, the category its timer is stopped
\* with ("" when it has none to stop), what find returned (None when it
\* was not called) and the exception that ended it (None when it
\* returned).
Made(response, category, found) ==
    [response |-> response, category |-> category, found |-> found, error |-> None]

\* Request.get, delivery_address being what find returned.
RequestGet(delivery_address) ==
    IF delivery_address \in {IndexError, AttributeError}
    THEN [response |-> <<>>, category |-> "", found |-> None, error |-> delivery_address]
    ELSE IF Truthy(delivery_address)
    THEN Made(<<"2", "0", "0", " ">> \o delivery_address \o <<"\n">>, "success", delivery_address)
    ELSE Made(not_found, "not_found", delivery_address)

\* The names of the statistics collectors, sorted.
StatNames == <<"bad", "connections", "not_found", "reads", "stats", "success", "writes">>

StatText(stat) ==
    CASE stat = "bad" -> <<"b", "a", "d">>
      [] stat = "connections" -> <<"c", "o", "n", "n", "e", "c", "t", "i", "o", "n", "s">>
      [] stat = "not_found" -> <<"n", "o", "t", "_", "f", "o", "u", "n", "d">>
      [] stat = "reads" -> <<"r", "e", "a", "d", "s">>
      [] stat = "stats" -> <<"s", "t", "a", "t", "s">>
      [] stat = "success" -> <<"s", "u", "c", "c", "e", "s", "s">>
      [] stat = "writes" -> <<"w", "r", "i", "t", "e", "s">>

\* Request.stats: a line for every collector, 210 on the first and 212 on
\* the others.  Of format_statistics only the name is kept: the figures
\* after it are left out.
RequestStats ==
    Made(Flatten([k \in 1..Len(StatNames) |->
                     (IF k = 1 THEN <<"2", "1", "0", " ">> ELSE <<"2", "1", "2", " ">>) \o StatText(StatNames[k]) \o <<"\n">>]),
         "stats", None)

\* Request.jstats; the figures are left out of the JSON text.
RequestJstats(statistics) ==
    Made(IF statistics THEN <<"2", "1", "0", " ", "[", "]", "\n">> ELSE <<"4", "0", "0", " ", "[", "]", "\n">>, "stats", None)

\* Request.bad_request
BadRequest(reason) == Made(<<"4", "0", "0", " ">> \o reason \o <<"\n">>, "bad", None)

\* Request.dispatch_request
DispatchRequest(request, statistics, cfg) ==
    IF ValidateRequest(request, statistics) = <<>>
    THEN CASE ToLower(request[1]) = V_get -> RequestGet(Find(request[2], cfg))
           [] ToLower(request[1]) = V_stats -> RequestStats
           [] ToLower(request[1]) = V_jstats -> RequestJstats(statistics)
    ELSE BadRequest(ValidateRequest(request, statistics))

\* Request(message, statistics, request_stats, config)
Request(message, statistics, cfg) ==
    IF Words(message) = <<>> THEN Made(<<>>, "", None)
    ELSE DispatchRequest(Words(message), statistics, cfg)

\* The clients of the table server: two connections.
Peers == {1, 2}

\* The lines a client sends.
Line_hit == <<"g", "e", "t", " ", "a", "a", ".", "a", "\n">>
Line_GET == <<"G", "E", "T", " ", "a", "a", ".", "a", "\n">>
Line_miss == <<"g", "e", "t", " ", "a", "\n">>
Line_verb == <<"p", "u", "t", " ", "a", "a", ".", "a", "\n">>
Line_words == <<"g", "e", "t", "\n">>
Line_blank == <<"\n">>
Line_invalid == <<"g", "e", "t", " ", InvalidByte, "\n">>
Line_stats == <<"s", "t", "a", "t", "s", "\n">>
Lines_ == {Line_hit, Line_GET, Line_miss, Line_verb, Line_words, Line_blank, Line_invalid,
           Line_stats}

\* What a client sends on a connection: up to MaxLines lines.
Scripts == UNION {[1..n -> Lines_] : n \in 0..MaxLines}

\* MaxLines plain requests, by turns one that is answered 200 and one that
\* is answered 400, the first being answered 200 when first is 1.
PlainScript(first) ==
    [k \in 1..MaxLines |-> IF (k + first) % 2 = 0 THEN Line_hit ELSE Line_verb]

\* The configuration file as it is written: one account, another account,
\* a text that does not load.
TableText == [statements |-> <<Statement(<<A_foo>>, <<>>, ident_code, WithAny)>>,
              debug_account |-> None]
TableTextBar == [statements |-> <<Statement(<<A_bar>>, <<>>, ident_code, WithAny)>>,
                 debug_account |-> None]
TableTextBad == [statements |-> <<Statement(<<A_foo>>, <<>>, ident_ident, WithAny)>>,
                 debug_account |-> None]
TableTexts == {TableText, TableTextBar, TableTextBad}

\* The statistics: how many timers of each collector have been stopped.
\* The times and rates the collectors keep are left out.
NoStats == [stat \in {StatNames[k] : k \in 1..Len(StatNames)} |-> 0]

\* timer.stop() of the collector stat, when statistics are collected; ""
\* is no timer.
Stop(counters, statistics, stat) ==
    IF statistics /\ stat # "" THEN [counters EXCEPT ![stat] = @ + 1] ELSE counters

\* A connection nobody has made: at is where its handle_requests stands,
\* script what the client sends in all, nsent and nread how many lines of
\* it were sent and read, eof whether readline has returned nothing, made
\* the Request of the line read last, written the responses given to
\* writer.write, drained for how many of them drain has returned.
NoPeer(script) ==
    [at |-> "none", script |-> script, nsent |-> 0, nread |-> 0, eof |-> FALSE,
     message |-> <<>>, made |-> Made(<<>>, "", None), written |-> <<>>, drained |-> 0]

\* main() as the loop starts: the context holds the configuration loaded
\* from the file and the file's modification time; no peer is known.
\* statistics is whether config.statistics is a number above 0, which
\* every text of the file is taken to say alike; reports is how many
\* times the statistics were printed, logged how many warnings and errors.
NewTable(text, statistics) ==
    [config_file |-> [text |-> text, mtime |-> 0], mtime |-> 0, peers |-> {},
     statistics |-> statistics, stats |-> NoStats, reports |-> 0, logged |-> 0]

TableStarts(text, scripts, statistics) ==
    /\ pc = "table"
    /\ peer = scripts
    /\ table = NewTable(text, statistics)
    /\ \E pick \in Picks(Checked(LoaderLoad(text).aliases)) : config = Load(text, pick)
    /\ conf_text = text
    /\ name = <<>>
    /\ matches = Return(<<>>)
    /\ result = <<>>
    /\ expr = <<>>
    /\ compiled = Expression(<<>>)
    /\ calculating = NoCalc
    /\ calculated = False
    /\ calc_text = NoCalcText
    /\ checked = None
    /\ milter = NoMilter
    /\ LoopIdle

\* One client sends any lines, the other clients none.
InitTable ==
    \E script \in Scripts :
        \E statistics \in BOOLEAN :
            TableStarts(TableText, [c \in Peers |-> NoPeer(IF c = 1 THEN script ELSE <<>>)],
                        statistics)

\* Every client sends plain requests, and statistics are collected.
InitLines == TableStarts(TableText, [c \in Peers |-> NoPeer(PlainScript(c % 2))], TRUE)

\* The server accepts a connection: handle_requests starts for it and
\* awaits reader.readline().
TableConnect(c) ==
    /\ peer[c].at = "none"
    /\ peer' = [peer EXCEPT ![c].at = "readline"]
    /\ UNCHANGED <<lookupVars, calc_text, checked, milter, loopVars, table>>

\* The client sends its next line.
Send(c) ==
    /\ peer[c].at # "none"
    /\ peer[c].nsent < Len(peer[c].script)
    /\ peer' = [peer EXCEPT ![c].nsent = @ + 1]
    /\ UNCHANGED <<lookupVars, calc_text, checked, milter, loopVars, table>>

\* A handler that reads the next line while the response to the last is
\* being drained.
AwaitsLineOrDrain(conn) == conn.at \in {"readline", "drain"}

\* Whether handle_requests of a connection is where it reads the next
\* line.
AwaitsLine(conn) == conn.at = "readline"

\* writer.write(response)
WriterWrite(written, response) == Append(written, response)

\* handle_requests from the return of readline with a line to the next
\* await: the connection when the line does not decode, and when the
\* Request of its message is made.
Undecoded(conn) == [conn EXCEPT !.nread = @ + 1, !.at = "closed"]

Answered(conn, message, made) ==
    [conn EXCEPT !.nread = @ + 1,
                 !.message = message,
                 !.made = made,
                 !.written = IF made.error = None /\ made.response # <<>>
                             THEN WriterWrite(@, made.response) ELSE @,
                 !.at = IF made.error # None THEN made.error[1]
                        ELSE IF made.response # <<>> THEN "drain" ELSE "readline"]

\* The context after the same steps, c being the connection.
UndecodedTable(t) ==
    [t EXCEPT !.stats = Stop(Stop(@, t.statistics, "reads"), t.statistics, "connections"),
              !.logged = @ + 1]

AnsweredTable(t, c, made) ==
    [t EXCEPT !.peers = @ \cup {c},
              !.stats = Stop(Stop(@, t.statistics, "reads"), t.statistics, made.category)]

\* readline returns a line the client has sent and handle_requests runs
\* to its next await: the drain of the response, the next readline when
\* there is no response, or its end.
ReadLine(c) ==
    /\ AwaitsLine(peer[c])
    /\ peer[c].nread < peer[c].nsent
    /\ IF Decode(peer[c].script[peer[c].nread + 1]) = UnicodeDecodeError
       THEN /\ peer' = [peer EXCEPT ![c] = Undecoded(@)]
            /\ table' = UndecodedTable(table)
       ELSE /\ peer' = [peer EXCEPT ![c] =
                           Answered(@, Decode(peer[c].script[peer[c].nread + 1]),
                                    Request(Decode(peer[c].script[peer[c].nread + 1]),
                                            table.statistics, config))]
            /\ table' = AnsweredTable(table, c, peer'[c].made)
    /\ UNCHANGED <<lookupVars, calc_text, checked, milter, loopVars>>

\* readline returns nothing, the client having closed its side after its
\* last line: handle_requests closes the writer and returns.
ReadEof(c) ==
    /\ AwaitsLine(peer[c])
    /\ peer[c].nread = Len(peer[c].script)
    /\ peer' = [peer EXCEPT ![c].at = "closed", ![c].eof = TRUE]
    /\ table' = [table EXCEPT
                    !.stats = Stop(Stop(@, table.statistics, "reads"), table.statistics,
                                   "connections")]
    /\ UNCHANGED <<lookupVars, calc_text, checked, milter, loopVars>>

\* writer.drain() returns: the response is written, handle_requests goes
\* to read the next line.
Drain(c) ==
    /\ peer[c].at = "drain"
    /\ peer' = [peer EXCEPT ![c].at = "readline", ![c].drained = @ + 1]
    /\ table' = [table EXCEPT !.stats = Stop(@, table.statistics, "writes")]
    /\ UNCHANGED <<lookupVars, calc_text, checked, milter, loopVars>>

\* The configuration file is written anew; its modification time grows.
EditFile ==
    /\ table.config_file.mtime < MaxEdits
    /\ \E text \in TableTexts \ {table.config_file.text} :
          table' = [table EXCEPT !.config_file = [text |-> text, mtime |-> @.mtime + 1]]
    /\ UNCHANGED <<lookupVars, calc_text, checked, milter, loopVars, peer>>

\* A loader that gives the configuration as it is left by a load that
\* failed.
ConfigLoaderLenient(text, pick) == Return(Load(text, pick))

\* config_loader(f): the configuration a text loads to, or the exception
\* load raises with raise_on_error.
ConfigLoader(text, pick) ==
    IF Load(text, pick).error # <<>> THEN Raise(Load(text, pick).error)
    ELSE Return(Load(text, pick))

\* configuration_watchdog wakes and finds the modification time of the
\* file has grown: it loads the file and keeps the configuration it had
\* when the load raises.
Watchdog ==
    /\ table.config_file.mtime > table.mtime
    /\ \E pick \in Picks(Checked(LoaderLoad(table.config_file.text).aliases)) :
          IF ConfigLoader(table.config_file.text, pick).error # None
          THEN /\ table' = [table EXCEPT !.mtime = table.config_file.mtime, !.logged = @ + 1]
               /\ UNCHANGED <<config, conf_text>>
          ELSE /\ table' = [table EXCEPT !.mtime = table.config_file.mtime]
               /\ config' = ConfigLoader(table.config_file.text, pick).value
               /\ conf_text' = table.config_file.text
    /\ UNCHANGED <<pc, name, matches, result, expr, compiled, calculating, calculated,
                   calc_text, checked, milter, loopVars, peer>>

\* statistics_report wakes and prints the statistics.
Report ==
    /\ table.statistics
    /\ table.reports < MaxReports
    /\ table' = [table EXCEPT !.reports = @ + 1]
    /\ UNCHANGED <<lookupVars, calc_text, checked, milter, loopVars, peer>>

NextTable ==
    \/ \E c \in Peers : TableConnect(c)
    \/ \E c \in Peers : Send(c)
    \/ \E c \in Peers : ReadLine(c)
    \/ \E c \in Peers : ReadEof(c)
    \/ \E c \in Peers : Drain(c)
    \/ EditFile
    \/ Watchdog
    \/ Report

SpecTable == InitTable /\ [][NextTable]_vars
SpecLines == InitLines /\ [][NextTable]_vars

-----------------------------------------------------------------------------
(* Properties of the table server.                                         *)

\* The line a connection read last, and its words when it decodes.
LastLine(conn) == conn.script[conn.nread]
LastWords(conn) ==
    IF Decode(LastLine(conn)) = UnicodeDecodeError THEN <<>> ELSE Words(LastLine(conn))

\* The line read last is a request get <alias>.
IsGet(conn) ==
    /\ conn.nread > 0
    /\ Len(LastWords(conn)) = 2
    /\ ToLower(LastWords(conn)[1]) = V_get

\* The line read last is malformed: its bytes are not UTF-8, its verb is
\* not known or the number of its words is not the one of its verb.
Malformed(conn) ==
    /\ conn.nread > 0
    /\ \/ Decode(LastLine(conn)) = UnicodeDecodeError
       \/ /\ LastWords(conn) # <<>>
          /\ \/ ToLower(LastWords(conn)[1]) \notin {V_get, V_stats, V_jstats}
             \/ Len(LastWords(conn)) # (IF ToLower(LastWords(conn)[1]) = V_get THEN 2 ELSE 1)

\* The response written last on a connection.
LastWritten(conn) == IF conn.written = <<>> THEN <<>> ELSE conn.written[Len(conn.written)]

\* C19: get <alias> is answered 200 <account> when find returns an account
\* and 500 not found when it returns none; a malformed line (verb not
\* known, wrong number of words, bytes that are not UTF-8) is answered
\* with a line 400 <reason> and the connection stays open.
C19_Original ==
    \A c \in Peers :
        /\ IsGet(peer[c]) /\ peer[c].at \in {"drain", "readline", "closed"} =>
              LastWritten(peer[c]) =
                  IF Truthy(peer[c].made.found)
                  THEN <<"2", "0", "0", " ">> \o peer[c].made.found \o <<"\n">>
                  ELSE <<"5", "0", "0", " ", "n", "o", "t", " ", "f", "o", "u", "n", "d", "\n">>
        /\ Malformed(peer[c]) =>
              /\ peer[c].at \in {"drain", "readline"} \/ peer[c].eof
              /\ Len(LastWritten(peer[c])) > 5
              /\ SubSeq(LastWritten(peer[c]), 1, 4) = <<"4", "0", "0", " ">>
              /\ LastWritten(peer[c])[Len(LastWritten(peer[c]))] = "\n"

\* The lines read on a connection that have a response.
HasResponse(line) == Decode(line) # UnicodeDecodeError /\ Words(line) # <<>>
Requests(conn) == SelectSeq(SubSeq(conn.script, 1, conn.nread), HasResponse)

\* A response is one to a line: 200 or 500 for a get, 400 for a line that
\* is not a request.
IsReplyTo(reply, line) ==
    /\ Len(reply) > 4
    /\ SubSeq(reply, 1, 4) \in
          (IF ValidateRequest(Words(Decode(line)), TRUE) = <<>>
           THEN {<<"2", "0", "0", " ">>, <<"5", "0", "0", " ">>} ELSE {<<"4", "0", "0", " ">>})

\* C20: on a connection the requests are handled in the order they
\* arrive and the replies are written in that order; the reply to a
\* request is written wholly before the next request is read, whatever the
\* other connections, the watchdog and the statistics reporter do
\* meanwhile.
C20_Ordering ==
    \A c \in Peers :
        /\ peer[c].nread <= peer[c].nsent
        /\ Len(peer[c].written) = Len(Requests(peer[c]))
        /\ \A j \in 1..Len(peer[c].written) :
              IsReplyTo(peer[c].written[j], Requests(peer[c])[j])
        /\ peer[c].drained =
              IF peer[c].at = "drain" THEN Len(peer[c].written) - 1 ELSE Len(peer[c].written)

\* The second request of a connection has arrived while the reply to its
\* first is being written; meanwhile another connection has its reply to
\* write, the watchdog has loaded the file anew and the statistics were
\* printed.
C20_Witness ==
    /\ peer[1].at = "drain" /\ peer[1].nread = 1 /\ peer[1].nsent = 2
    /\ peer[1].script[1] # peer[1].script[2]
    /\ peer[2].at = "drain" /\ peer[2].nread = 2
    /\ peer[2].written[1] # peer[2].written[2]
    /\ table.mtime > 0
    /\ table.reports > 0

\* The watchdog takes a step: the modification time the context holds
\* changes.
Reloads == table'.mtime # table.mtime

\* The configurations the file as it is now can load to.
FileLoads ==
    {Load(table.config_file.text, pick) :
        pick \in Picks(Checked(LoaderLoad(table.config_file.text).aliases))}

\* A connection reads a request get <alias> in the step.
Gets(c) == peer'[c].nread # peer[c].nread /\ IsGet(peer'[c])

\* One step of the table server as C21 has it.
ServedStep ==
    /\ config.error = <<>>
    /\ config' # config => Reloads
    /\ Reloads =>
          /\ table.config_file.mtime > table.mtime
          /\ \E loaded \in FileLoads :
                config' = IF loaded.error = <<>> THEN loaded ELSE config
    /\ \A c \in Peers :
          Gets(c) =>
              /\ config' = config
              /\ peer'[c].made.found = Find(LastWords(peer'[c])[2], config)

\* C21: the configuration a request is answered with is the one loaded
\* last without error, the first one or one the watchdog loaded because
\* the modification time of the file had grown: a load that fails leaves
\* the configuration served as it is, a load that succeeds is the
\* configuration of every request made after it, and one request is
\* resolved with one configuration.
C21_ServedConfiguration == [][ServedStep]_vars

\* A request is answered from the configuration the watchdog loaded after
\* a load of it had failed; a request before was answered from the first
\* configuration.
C21_Witness ==
    /\ table.logged = 1
    /\ table.mtime = 2
    /\ peer[1].nread > 0 /\ peer[1].written[1] = <<"2", "0", "0", " ">> \o A_foo \o <<"\n">>
    /\ IsGet(peer[2]) /\ peer[2].made.found = A_bar

-----------------------------------------------------------------------------
(* config.py: Configuration.load called on a configuration that has been   *)
(* loaded before.                                                          *)

\* The configuration object after load, when it was cfg before,
\* loader.load() gave new_config and a new object would be left as loaded:
\* a text that does not parse leaves the object as it was but for the
\* error; otherwise update_config has put the new aliases in place before
\* any check, and a setting the text does not give is kept.
Updated(cfg, new_config, loaded) ==
    IF new_config.error # None
    THEN [cfg EXCEPT !.error = new_config.error, !.line_number = new_config.line_number]
    ELSE [loaded EXCEPT !.debug_account = IF new_config.debug_account # None
                                         THEN new_config.debug_account
                                         ELSE cfg.debug_account]

\* cfg.load(loader), whatever raise_on_error: the object afterwards, were
\* the error recorded.
LoadOver(cfg, text, pick) == Updated(cfg, LoaderLoad(text), Load(text, pick))

\* The exceptions load catches.
Caught == {ParseError, SemanticError, ValueError}

\* The texts that are loaded: two that load, one whose match expression
\* does not parse, one whose calc fails the semantic check, one whose specs
\* are not unique.
ReloadTexts ==
    { TableText,
      [statements |-> <<Statement(<<A_bar>>, <<>>, fqdn_code, WithLabels)>>,
       debug_account |-> A_dbg],
      TableTextBad,
      [statements |-> <<Statement(<<A_bar>>, <<>>, ident_code,
                                  <<[func |-> "CHARS", args |-> <<P_2>>]>>)>>,
       debug_account |-> None],
      [statements |-> <<Statement(<<A_bar>>, <<>>, ident_code, WithAny),
                        Statement(<<A_aa>>, <<>>, ident_code, WithAny)>>,
       debug_account |-> None] }

InitReload ==
    /\ OthersIdle
    /\ pc = "new"
    /\ config = NewConfiguration
    /\ conf_text = NoText
    /\ name = <<>>
    /\ matches = Return(<<>>)
    /\ result = <<>>
    /\ expr = <<>>
    /\ compiled = Expression(<<>>)
    /\ calculating = NoCalc
    /\ calculated = False

\* load is called with a loader of a text, with raise_on_error or
\* without.
CallLoad ==
    /\ pc \in {"new", "returned", "raised"}
    /\ \E text \in ReloadTexts : conf_text' = text
    /\ \E raise_on_error \in BOOLEAN : pc' = IF raise_on_error THEN "strict" ELSE "lenient"
    /\ UNCHANGED <<config, name, matches, result, expr, compiled, calculating, calculated,
                   otherVars>>

\* load runs: it returns, having recorded the error if there was one, or
\* it raises, the error being left ''.
RunLoad ==
    /\ pc \in {"strict", "lenient"}
    /\ \E pick \in Picks(Checked(LoaderLoad(conf_text).aliases)) :
          IF /\ LoadOver(config, conf_text, pick).error # <<>>
             /\ pc = "strict" \/ LoadOver(config, conf_text, pick).error \notin Caught
          THEN /\ config' = [LoadOver(config, conf_text, pick) EXCEPT !.error = <<>>]
               /\ pc' = "raised"
          ELSE /\ config' = LoadOver(config, conf_text, pick)
               /\ pc' = "returned"
    /\ UNCHANGED <<conf_text, name, matches, result, expr, compiled, calculating, calculated,
                   otherVars>>

NextReload == CallLoad \/ RunLoad

SpecReload == InitReload /\ [][NextReload]_vars

\* The text load is called with does not load.
Failing ==
    \E pick \in Picks(Checked(LoaderLoad(conf_text).aliases)) :
        Load(conf_text, pick).error # <<>>

\* One run of load as C22 has it.
LoadStep ==
    /\ pc = "strict" /\ Failing => pc' = "raised"
    /\ pc = "lenient" /\ Failing =>
          /\ pc' = "returned"
          /\ config'.error # <<>>
          /\ config'.aliases = config.aliases
          /\ config'.debug_account = config.debug_account

\* C22: load with raise_on_error raises the error of a text that does not
\* parse, fails the semantic check or is not unique; without
\* raise_on_error it records the error and the configuration keeps what
\* it had before the load: its alias specs with the maps made of them and
\* its settings.
C22_Original == [][LoadStep]_vars

-----------------------------------------------------------------------------
(* MatchExpression.match_sketch on its own.                                *)

\* The match expressions whose sketches are matched: two fields about a
\* literal of one character, two about a literal of two, a literal before
\* a field that ends the expression.
SketchTexts ==
    { <<"%", "i", "d", "e", "n", "t", "%", ".", "%", "a", "l", "p", "h", "a", "%">>,
      <<"%", "a", "l", "n", "u", "m", "%", "-", "-", "%", "n", "u", "m", "b", "e", "r", "%">>,
      <<"a", "%", "f", "q", "d", "n", "%">> }

InitSketch ==
    /\ OthersIdle
    /\ pc = "sketch"
    /\ \E text \in SketchTexts :
          /\ expr = text
          /\ compiled = Expression(text)
    /\ \E address \in Names : name = address
    /\ matches = Return(<<>>)
    /\ config = NewConfiguration
    /\ conf_text = NoText
    /\ result = <<>>
    /\ calculating = NoCalc
    /\ calculated = False

\* matchex.match_sketch(matchex.sketch, address)
DoMatchSketch ==
    /\ pc = "sketch"
    /\ matches' = Return(MatchSketch(BuildSketch(compiled.tokens, <<>>), name, 0, 0))
    /\ pc' = "matched"
    /\ UNCHANGED <<conf_text, config, name, result, expr, compiled, calculating, calculated,
                   otherVars>>

NextSketch == DoMatchSketch

SpecSketch == InitSketch /\ [][NextSketch]_vars

\* The field assignments that consume the whole input: one for each way
\* to write it as the literals of the sketch with a valid non-empty field
\* between each two.
Assignments(tokens, x) ==
    { FieldsOf(tokens, parts) :
        parts \in { ps \in Splits(x, Len(tokens)) :
                       \A k \in 1..Len(tokens) :
                          IF (k % 2) = 1 THEN ps[k] = tokens[k]
                          ELSE ValidField(tokens[k], ps[k]) } }

(* C23, as claimed: match_sketch returns exactly the field assignments
   that consume the whole input, one for every way of writing the input as
   the literals verbatim with a non-empty string its matcher accepts for
   each field, fields of length 1 too, and nothing else. *)
C23_Original ==
    pc = "matched" =>
        /\ SetOf(matches.value) = Assignments(compiled.tokens, name)
        /\ Len(matches.value) = Cardinality(Assignments(compiled.tokens, name))

-----------------------------------------------------------------------------
(* Matcher.__call__ on its own, no end_pos given.                          *)

\* The matchers called: the fqdn and the number matcher of the program
\* and the matcher of test_basic_matcher.
CalledMatchers ==
    { ALL_MATCHERS(F_fqdn),
      ALL_MATCHERS(F_number),
      Matcher3({"a", "b", "c"}, {"a", "b", "c", "-", "_"}, {"a", "b", "c"}) }

\* calculating holds the call: the matcher's character sets, start_pos and
\* minimal; name is the address and result what the call returns.
InitMatcher ==
    /\ OthersIdle
    /\ pc = "matcher"
    /\ \E address \in Names :
          /\ name = address
          /\ \E char_sets \in CalledMatchers :
                \E start_pos \in 0..Len(address) :
                   \E minimal \in BOOLEAN :
                      calculating = [char_sets |-> char_sets, start_pos |-> start_pos,
                                     minimal |-> minimal]
    /\ result = <<>>
    /\ matches = Return(<<>>)
    /\ config = NewConfiguration
    /\ conf_text = NoText
    /\ expr = <<>>
    /\ compiled = Expression(<<>>)
    /\ calculated = False

\* matcher(address, start_pos, minimal=minimal)
DoMatcherCall ==
    /\ pc = "matcher"
    /\ result' = MatcherCall(calculating.char_sets, name, calculating.start_pos, NoPos,
                             calculating.minimal)
    /\ pc' = "called"
    /\ UNCHANGED <<conf_text, config, name, matches, expr, compiled, calculating, calculated,
                   otherVars>>

NextMatcher == DoMatcherCall

SpecMatcher == InitMatcher /\ [][NextMatcher]_vars

\* The ends e for which address[start..e] has its first character in the
\* start set, its last in the end set and the ones between in the interior
\* set (positions count from 0).
ValidEnds(char_sets, address, start) ==
    { e \in start..(Len(address) - 1) :
        /\ address[start + 1] \in char_sets[1]
        /\ address[e + 1] \in char_sets[3]
        /\ \A k \in (start + 1)..(e - 1) : address[k + 1] \in char_sets[2] }

\* The largest of a set of positions, or the smallest.
Chosen(ends, minimal) ==
    IF minimal THEN CHOOSE e \in ends : \A f \in ends : e <= f
    ELSE CHOOSE e \in ends : \A f \in ends : e >= f

(* C24, as claimed: a matcher called without an end returns no match when
   the character at start is not in its start set, and otherwise the
   largest (greedy) or the smallest (minimal) end for which the first
   character is in the start set, the last in the end set and the interior
   within the interior set; so the fqdn matcher returns no match on an
   input that begins with '.' or '-'. *)
C24_Original ==
    (pc = "called" /\ calculating.start_pos < Len(name)) =>
        IF ValidEnds(calculating.char_sets, name, calculating.start_pos) = {}
        THEN result = None
        ELSE result = <<calculating.start_pos,
                        Chosen(ValidEnds(calculating.char_sets, name, calculating.start_pos),
                               calculating.minimal)>>

-----------------------------------------------------------------------------
(* The calc functions ALPHAS and CHAR on their own.                        *)

\* The characters of the identifiers: a letter of each case, a numeral,
\* and for an fqdn the dot.
IdentChars == {"a", "B", "1"}
FqdnChars == IdentChars \cup {"."}

\* The text of an integer, as written in a configuration.
IntText(n) == IF n < 0 THEN <<"-">> \o Str(0 - n) ELSE Str(n)

\* The label indexes and character offsets CHAR is given.
Offsets == (0 - 3)..3
LabelIndexes == (0 - 2)..2

\* The calcs evaluated for an identifier: ALPHAS(), and CHAR with an
\* offset and a default, and with a label index before them for an fqdn.
FuncCalcs(type) ==
    {[func |-> "ALPHAS", args |-> <<>>]}
    \cup (IF type = F_fqdn
          THEN {[func |-> "CHAR", args |-> <<IntText(label), IntText(offset), <<"x">>>>] :
                   label \in LabelIndexes, offset \in Offsets}
          ELSE {[func |-> "CHAR", args |-> <<IntText(offset), <<"x">>>>] :
                   offset \in Offsets})

InitFunc ==
    /\ OthersIdle
    /\ pc = "func"
    /\ \E type \in {F_ident, F_fqdn} :
          \E n \in 1..MaxLen :
             \E value \in [1..n -> IF type = F_fqdn THEN FqdnChars ELSE IdentChars] :
                \E calc \in FuncCalcs(type) :
                   calculating = [calcs |-> <<calc>>, code |-> <<"x">>,
                                  identifiers |-> <<[type |-> type, value |-> value]>>]
    /\ calculated = False
    /\ config = NewConfiguration
    /\ conf_text = NoText
    /\ name = <<>>
    /\ matches = Return(<<>>)
    /\ result = <<>>
    /\ expr = <<>>
    /\ compiled = Expression(<<>>)

\* CalcExpression.FUNCS[func](code, args, identifiers)
DoFunc ==
    /\ pc = "func"
    /\ calculated' = Func(calculating.calcs[1].func, calculating.code,
                          calculating.calcs[1].args,
                          [identifiers |-> calculating.identifiers,
                           account |-> A_foo, alias |-> <<>>])
    /\ pc' = "evaluated"
    /\ UNCHANGED <<conf_text, config, name, matches, result, expr, compiled, calculating,
                   otherVars>>

NextFunc == DoFunc

SpecFunc == InitFunc /\ [][NextFunc]_vars

\* A 1-based index, negative from the end, is within a list of n.
InBounds(k, n) == k # 0 /\ Abs(k) <= n

\* The element at a 1-based index, negative from the end.
OneBased(list, k) == IF k > 0 THEN list[k] ELSE list[Len(list) + 1 + k]

\* CHAR as C25 has it, for an identifier, a label index (used for an fqdn),
\* an offset and a default.
CharClaimed(id, label, offset, default) ==
    IF id.type = F_fqdn /\ ~InBounds(label, Len(Split(id.value, "."))) THEN default
    ELSE IF ~InBounds(offset, Len(IF id.type = F_fqdn
                                  THEN OneBased(Split(id.value, "."), label)
                                  ELSE id.value))
    THEN default
    ELSE <<OneBased(IF id.type = F_fqdn THEN OneBased(Split(id.value, "."), label)
                    ELSE id.value, offset)>>

\* The calc evaluated is CHAR.
EvaluatedChar == pc = "evaluated" /\ calculating.calcs[1].func = "CHAR"

(* C25, as claimed: CHAR evaluates to the character at the 1-based offset
   of the identifier, of its 1-based label when it is an fqdn, negative
   label and offset counting from the end; when the label or the offset is
   out of bounds the result is the default character, never an indexing
   failure. *)
C25_Original ==
    EvaluatedChar =>
        calculated = CharClaimed(calculating.identifiers[1],
                                 IF calculating.identifiers[1].type = F_fqdn
                                 THEN Int_(calculating.calcs[1].args[1]) ELSE 1,
                                 Int_(calculating.calcs[1].args[Len(calculating.calcs[1].args) - 1]),
                                 calculating.calcs[1].args[Len(calculating.calcs[1].args)])

(* C26, as claimed: ALPHAS evaluates to the decimal count of the ASCII
   letters, upper-case and lower-case alike, of the identifier. *)
C26_Original ==
    (pc = "evaluated" /\ calculating.calcs[1].func = "ALPHAS") =>
        calculated = Str(CountIn(calculating.identifiers[1].value, MATCH_ALPHA))

-----------------------------------------------------------------------------
(* The recorded recipients of the milter connection, command by command.   *)

\* A step in which service_requests reads a command and handles it.
CommandRead == milter.task = "serving" /\ milter'.task # "returned"

\* The recipients the command of the step has recorded.
Added == SubSeq(milter'.recipients, Len(milter.recipients) + 1, Len(milter'.recipients))

\* The originals the replies - of the step name.
Removed == {milter'.written[k].strings[1] :
               k \in {j \in 1..Len(milter'.written) : milter'.written[j].cmd = "-"}}

FrameStep ==
    CommandRead =>
        /\ milter'.command \in {"A", "E", "Q", "K"} => milter'.recipients = <<>>
        /\ milter'.command \notin {"A", "E", "Q", "K", "R"} =>
              milter'.recipients = milter.recipients
        /\ milter'.command = "R" =>
              /\ Len(milter'.recipients) >= Len(milter.recipients)
              /\ SubSeq(milter'.recipients, 1, Len(milter.recipients)) = milter.recipients
        /\ milter'.command = "E" =>
              Removed = {r.rcpt : r \in SetOf(Changed(milter.recipients))}

\* C27: the commands A, E, Q and K each leave the list of recorded
\* recipients empty, every other command but RCPT leaves it as it was and
\* RCPT only adds to it, so end of body rewrites only recipients recorded
\* since the last A, E, Q or K.
C27_RecipientsFrame == [][FrameStep]_vars

\* An end of body has rewritten the one recipient recorded and left the
\* list empty.
C27_Witness ==
    /\ Handled("E")
    /\ Len(milter.before) = 1
    /\ Len(milter.written) = 3
    /\ milter.recipients = <<>>

(* C28, as claimed: every RCPT command that carries one recipient is
   answered with exactly one reply, c or r, before the next command is
   read, whether the domain of the recipient is a local one or not. *)
C28_Original ==
    (Handled("R") /\ Len(RcptsRead) = 1) =>
        /\ Len(milter.written) = 1
        /\ milter.written[1].cmd \in {"c", "r"}

\* The replies c among the replies of the step.
Accepted == {j \in 1..Len(milter'.written) : milter'.written[j].cmd = "c"}

RecordStep ==
    (CommandRead /\ milter'.command = "R") =>
        /\ Len(Added) = Cardinality(Accepted)
                           + Len(SelectSeq(Added, LAMBDA r : ~IsLocal(r.rcpt)))
        /\ \A k \in 1..Len(Added) :
              IsLocal(Added[k].rcpt) =>
                 \E j \in Accepted :
                    /\ milter'.verified[j].address = Added[k].alias
                    /\ milter'.verified[j].status \in 200..299
        /\ \A j \in 1..Len(milter'.written) :
              milter'.written[j].cmd = "r" =>
                 milter'.verified[j].status = 550

\* C29: a recipient answered with r is not recorded: RCPT records only
\* the recipients of a domain that is not local and those the verifier
\* accepted, one for each reply c.
C29_RejectedNeverRecorded == [][RecordStep]_vars

\* A recipient was rejected after another was recorded: the list is as it
\* was.
C29_Witness ==
    /\ Handled("R")
    /\ milter.written = <<Reply("r", <<>>)>>
    /\ milter.before # <<>>
    /\ milter.recipients = milter.before

-----------------------------------------------------------------------------
(* find over the alias specs in every order.                               *)

\* The configuration texts: three specs of which two are of one account,
\* without debug account and with one; two specs of one account; a spec
\* of two accounts and a spec of one of them.
OrderTexts ==
    { [statements |-> <<Statement(<<A_foo>>, <<>>, ident_code, WithAny),
                        Statement(<<A_bar>>, <<>>, alnum_code, WithAny),
                        Statement(<<A_foo>>, <<>>, fqdn_code, WithAny)>>,
       debug_account |-> None],
      [statements |-> <<Statement(<<A_foo>>, <<>>, ident_code, WithAny),
                        Statement(<<A_bar>>, <<>>, alnum_code, WithAny),
                        Statement(<<A_foo>>, <<>>, fqdn_code, WithAny)>>,
       debug_account |-> A_dbg],
      [statements |-> <<Statement(<<A_foo>>, <<>>, ident_code, WithAny),
                        Statement(<<A_foo>>, <<>>, fqdn_code, WithAny)>>,
       debug_account |-> None],
      [statements |-> <<Statement(<<A_aa, A_bar>>, <<>>, ident_code, WithAny),
                        Statement(<<A_bar>>, <<>>, alnum_code, WithAny)>>,
       debug_account |-> A_dbg] }

InitOrder ==
    /\ OthersIdle
    /\ pc = "request"
    /\ \E text \in OrderTexts :
          \E pick \in Picks(Checked(LoaderLoad(text).aliases)) :
             /\ conf_text = text
             /\ config = Load(text, pick)
    /\ \E address \in Names : name = address
    /\ matches = Return(<<>>)
    /\ result = <<>>
    /\ expr = <<>>
    /\ compiled = Expression(<<>>)
    /\ calculating = NoCalc
    /\ calculated = False

NextOrder == FindName

SpecOrder == InitOrder /\ [][NextOrder]_vars

\* The orders of n things.
Orders(n) == {p \in [1..n -> 1..n] : \A j, k \in 1..n : p[j] = p[k] => j = k}

\* The configuration with its alias specs in another order.
Reordered(cfg, p) == [cfg EXCEPT !.aliases = [k \in 1..Len(cfg.aliases) |-> cfg.aliases[p[k]]]]

\* C30: find returns the same for the alias specs of the configuration in
\* any order.
C30_FindOrder ==
    Found => \A p \in Orders(Len(config.aliases)) : Find(name, Reordered(config, p)) = result

\* Three specs verify the name, the second for another account than the
\* first and the third: find gives the debug account.
C30_Witness ==
    /\ Returned
    /\ Len(matches.value) = 3
    /\ SpecMatchDeliveryAccount(matches.value[1]) = SpecMatchDeliveryAccount(matches.value[3])
    /\ SpecMatchDeliveryAccount(matches.value[2]) # SpecMatchDeliveryAccount(matches.value[1])
    /\ result = A_dbg


=============================================================================
